---------------------------- MODULE Spec2Model ----------------------------
(***************************************************************************)
(* Model of irongrp: the GRP sprite container codec (src/src/grp.rs), its  *)
(* RLE row codec, and the PNG -> indexed-frame bridge (src/src/palpng.rs), *)
(* the frame renderer (src/src/png.rs) and the file layout analyser        *)
(* (src/src/analyse.rs).                                                   *)
(*                                                                         *)
(* Bytes are integers 0..255, byte sequences are TLA+ sequences.  Rust     *)
(* indices are 0-based; b[i] of the source is b[i + 1] here.               *)
(***************************************************************************)
EXTENDS Integers, Sequences, FiniteSets, TLC

VARIABLES
    pc,               \* position of the driver that calls the codec
    row,              \* RLE row tests: the pixel row given to the encoder
    encoded,          \* RLE row tests: encoded row per compression type
    decoded,          \* RLE row tests: decoder result per compression type
    line_data,        \* decoder tests: the byte window handed to the reader
    image_width,      \* decoder tests: width of the frame being read
    image_height,     \* decoder tests: height of the frame being read
    dec,              \* decoder tests: result of decode_grp_rle_row
    img,              \* decoder tests: result of read_image_data
    png_files,        \* conversion: the input images, as indexed pixel grids
    args_compression, \* conversion: the CompressionType asked for
    grp,              \* conversion: result of files_to_grp
    grp_file,         \* conversion: the bytes write_grp_file wrote
    readback,         \* conversion: result of reading the file as grp_to_png does
    rd_type,          \* reader tests: the GrpType given to read_grp_frames
    rd_frames,        \* reader tests: result of read_grp_frames
    ext_width,        \* extended width: the width given to the encoding adjustment
    ext_offset,       \* extended width: the offset given to the encoding adjustment
    ext_stored,       \* extended width: the stored width and offset
    ext_back,         \* extended width: the width and offset decoded from the stored ones
    colour_index_cache, \* colour cache: COLOUR_INDEX_CACHE, a map from keys to indices
    calls,            \* colour cache: per thread, its call of cached_map_colour_to_palette_index
    trim_image,       \* trimming: the indexed pixel grid given to read_png
    trim_result,      \* trimming: result of trim_away_transparency and of read_png
    args,             \* tools: the Args given to grp_to_png or analyse_grp
    saved,            \* rendering: what render_and_save_frames_to_png saved
    analysis,         \* analyser: result and used_ranges of analyse_grp
    rle_input,        \* frame encoder: the arguments of encode_grp_rle_data
    rle_frame         \* frame encoder: the ImageData it returns

rleVars == <<row, encoded, decoded>>
decVars == <<line_data, image_width, image_height, dec, img>>
fileVars == <<png_files, args_compression, grp, grp_file, readback>>
readVars == <<rd_type, rd_frames>>
extVars == <<ext_width, ext_offset, ext_stored, ext_back>>
cacheVars == <<colour_index_cache, calls>>
trimVars == <<trim_image, trim_result>>
toolVars == <<args, saved, analysis>>
frameVars == <<rle_input, rle_frame>>
moreVars == <<readVars, extVars, cacheVars, trimVars, toolVars, frameVars>>
vars == <<pc, rleVars, decVars, fileVars, moreVars>>

(***************************************************************************)
(* Bounds of the model.                                                    *)
(***************************************************************************)
MaxRowLen == 6        \* exhaustive pixel rows up to this length
MaxSegs == 2          \* long rows: number of concatenated segments
MaxWindow == 4        \* decoder tests: bytes in the window
MaxDecodeWidth == 3   \* decoder tests: target row width
MaxDecodeHeight == 2  \* decoder tests: rows of the frame read from the window
MaxFrames == 2        \* conversion: number of input images

(***************************************************************************)
(* Integer helpers: fixed-width arithmetic of the source.                  *)
(***************************************************************************)
Min(a, b) == IF a < b THEN a ELSE b
Max(a, b) == IF a > b THEN a ELSE b

\* a & b on non-negative integers
RECURSIVE BitAnd(_, _)
BitAnd(a, b) ==
    IF a = 0 \/ b = 0 THEN 0
    ELSE (a % 2) * (b % 2) + 2 * BitAnd(a \div 2, b \div 2)

\* a | b on non-negative integers
RECURSIVE BitOr(_, _)
BitOr(a, b) ==
    IF a = 0 THEN b
    ELSE IF b = 0 THEN a
    ELSE (IF a % 2 = 1 \/ b % 2 = 1 THEN 1 ELSE 0) + 2 * BitOr(a \div 2, b \div 2)

AsU8(v)  == v % 256
AsU16(v) == v % 65536

\* the least element of a non-empty set of integers
Least(S) == CHOOSE x \in S : \A y \in S : x <= y

\* the sequence of n copies of v
Repeat(v, n) == [k \in 1..n |-> v]

\* row[from..to] of the source (0-based, to excluded)
Slice(s, from, to) == SubSeq(s, from + 1, to)

(***************************************************************************)
(* decode_grp_rle_row.  The decoder state carries, besides the source's    *)
(* locals (x, data_offset, line_pixels), a record of what was touched:     *)
(*   reads  - the offsets of line_data that were indexed                   *)
(*   writes - <<x, source offset, control offset>> of every pixel store    *)
(*   ctls   - the offsets of the control bytes that were executed          *)
(*   log    - the Error-level messages                                     *)
(***************************************************************************)
DecoderStart(image_w) ==
    [ line_pixels |-> Repeat(0, image_w), x |-> 0, data_offset |-> 0,
      reads |-> {}, writes |-> {}, ctls |-> {}, log |-> {} ]

\* mutant: the Run loop without its test of x against image_width
DecodeRunLoopUnclamped(st, run_length, colour_index, src, ctl, image_w) ==
    [st EXCEPT
      !.line_pixels = [p \in 1..Len(@) |->
                         IF st.x < p /\ p <= st.x + run_length THEN colour_index ELSE @[p]],
      !.writes = @ \cup {<<st.x + k, src, ctl>> : k \in 0..(run_length - 1)},
      !.x = @ + run_length]

\* for _ in 0..run_length { if x >= image_width { break } line_pixels[x] = colour_index; x += 1 }
\* The loop stores at x, x+1, ... until run_length stores were made or x reached
\* image_width; it logs when it stopped before run_length stores.
DecodeRunLoop(st, run_length, colour_index, src, ctl, image_w) ==
    LET n == Min(run_length, Max(image_w - st.x, 0))
    IN  [st EXCEPT
          !.line_pixels = [p \in 1..Len(@) |->
                             IF st.x < p /\ p <= st.x + n THEN colour_index ELSE @[p]],
          !.writes = @ \cup {<<st.x + k, src, ctl>> : k \in 0..(n - 1)},
          !.x = @ + n,
          !.log = IF n < run_length THEN @ \cup {"run_exceeds_width"} ELSE @]

\* for _ in 0..copy_length { if x >= image_width || data_offset >= line_data.len() { break }
\*     line_pixels[x] = line_data[data_offset]; x += 1; data_offset += 1 }
DecodeCopyLoop(st, copy_length, ctl, data, image_w) ==
    LET n == Min(copy_length,
                 Min(Max(image_w - st.x, 0), Max(Len(data) - st.data_offset, 0)))
    IN  [st EXCEPT
          !.line_pixels = [p \in 1..Len(@) |->
                             IF st.x < p /\ p <= st.x + n
                             THEN data[st.data_offset + (p - st.x)] ELSE @[p]],
          !.reads = @ \cup {st.data_offset + k : k \in 0..(n - 1)},
          !.writes = @ \cup {<<st.x + k, st.data_offset + k, ctl>> : k \in 0..(n - 1)},
          !.x = @ + n,
          !.data_offset = @ + n,
          !.log = IF n < copy_length THEN @ \cup {"literal_overrun"} ELSE @]

\* the "copy x pixels directly" branch, with the step-over of a 0 length
DecodeLiteral(st, control_byte, ctl, data, image_w) ==
    LET after == DecodeCopyLoop(st, control_byte, ctl, data, image_w)
    IN  IF control_byte = 0
        THEN [after EXCEPT !.data_offset = @ + 1,
                           !.log = @ \cup {"literal_zero"}]
        ELSE after

RECURSIVE DecodeLoop(_, _, _)
DecodeLoop(st, data, image_w) ==
    IF ~(st.x < image_w /\ st.data_offset < Len(data)) THEN st
    ELSE
      LET ctl == st.data_offset
          control_byte == data[ctl + 1]
          s1 == [st EXCEPT !.data_offset = @ + 1,
                           !.reads = @ \cup {ctl},
                           !.ctls = @ \cup {ctl}]
      IN  IF BitAnd(control_byte, 128) # 0
          THEN DecodeLoop([s1 EXCEPT !.x = @ + BitAnd(control_byte, 127)],
                          data, image_w)
          ELSE IF BitAnd(control_byte, 64) # 0
          THEN IF s1.data_offset >= Len(data)
               THEN [s1 EXCEPT !.log = @ \cup {"run_truncated"}]
               ELSE DecodeLoop(
                      DecodeRunLoop(
                        [s1 EXCEPT !.data_offset = @ + 1,
                                   !.reads = @ \cup {s1.data_offset}],
                        BitAnd(control_byte, 63), data[s1.data_offset + 1],
                        s1.data_offset, ctl, image_w),
                      data, image_w)
          ELSE DecodeLoop(DecodeLiteral(s1, control_byte, ctl, data, image_w),
                          data, image_w)

\* mutant: the pixel cursor is returned as the consumed-byte count
decode_returning_x(data, image_w) ==
    LET st == DecodeLoop(DecoderStart(image_w), data, image_w)
    IN  [st EXCEPT !.data_offset = st.x]

\* (line_pixels, data_offset) of the source are .line_pixels and .data_offset
decode_grp_rle_row(data, image_w) == DecodeLoop(DecoderStart(image_w), data, image_w)

(***************************************************************************)
(* read_image_data: a Normal frame read from the bytes of the file, from   *)
(* image_data_offset to the end of the file (data_block).  A result is     *)
(* [ok |-> TRUE, ...ImageData] or [ok |-> FALSE, err |-> the error].       *)
(***************************************************************************)
Ok(v) == [ok |-> TRUE] @@ v
Err(kind, msg) == [ok |-> FALSE, kind |-> kind, err |-> msg]

U16FromLe(lo, hi) == lo + 256 * hi
U16ToLe(v) == <<v % 256, v \div 256>>

read_image_data(file, width, height, image_data_offset) ==
    IF image_data_offset > Len(file)
    THEN Err("UnexpectedEof", "image_data_offset beyond file length")
    ELSE
      LET data_block == Slice(file, image_data_offset, Len(file))
          fits(i) == i * 2 + 2 <= Len(data_block)
          row_offsets == [i \in 1..height |->
                            IF fits(i - 1)
                            THEN U16FromLe(data_block[2 * i - 1], data_block[2 * i])
                            ELSE 0]
          row_data(r) == Slice(data_block, row_offsets[r], Len(data_block))
          rows == [r \in 1..height |->
                     IF row_offsets[r] >= Len(data_block) THEN DecoderStart(width)
                     ELSE decode_grp_rle_row(row_data(r), width)]
          beyond(r) == row_offsets[r] >= Len(data_block)
          too_long(r) == row_offsets[r] + rows[r].data_offset > Len(data_block)
          bad == {r \in 1..height : beyond(r) \/ too_long(r)}
      IN  IF \E i \in 0..(height - 1) : ~fits(i)
          THEN Err("UnexpectedEof", "Not enough data for row offset table")
          ELSE IF bad # {}
          THEN IF beyond(Least(bad))
               THEN Err("UnexpectedEof", "Row data offset is beyond end of data_block")
               ELSE Err("UnexpectedEof", "Row encoded length goes beyond buffer")
          ELSE Ok([ row_offsets |-> row_offsets,
                    raw_row_data |-> [r \in 1..height |->
                                        Slice(row_data(r), 0, rows[r].data_offset)],
                    converted_pixels |-> [k \in 1..(AsU16(width * height)) |->
                                            rows[((k - 1) \div width) + 1]
                                                .line_pixels[((k - 1) % width) + 1]],
                    log |-> UNION {rows[r].log : r \in 1..height},
                    grp_type |-> "Normal" ])

(***************************************************************************)
(* encode_grp_rle_row                                                      *)
(***************************************************************************)
SafetyBreak == 4096
MaxTransparentRun == 127
MaxColourRun == 63

same_colour_threshold(compression_type) ==
    IF compression_type = "Normal" THEN 3 ELSE 2

\* while i + run_len < len && row_pixels[i + run_len] == colour && run_len < cap { run_len += 1 }
\* starting from run_len = 1: the first run_len at which the loop condition fails.
RunLength(row_pixels, i, colour, cap) ==
    LET goes_on(n) == /\ i + n < Len(row_pixels)
                      /\ row_pixels[i + n + 1] = colour
                      /\ n < cap
    IN  Least({n \in 1..cap : ~goes_on(n)})

\* last_colour_len once the literal loop, begun at i, has looked at the non-zero
\* pixel x: it is reset to 1 by a pixel that differs from the one before it (and by
\* the first pixel) and grows by 1 otherwise, so it counts the equal pixels that
\* end at x, no further back than i.
LastColourLen(row_pixels, i, x) ==
    Least({n \in 1..(x - i + 1) :
             \/ n = x - i + 1
             \/ row_pixels[x - n + 1] # row_pixels[x + 1]})

\* mutant: the literal loop without its test of last_colour_len
LiteralLengthToTheCap(row_pixels, compression_type, i) ==
    LET at_end(x) == x >= Len(row_pixels) \/ row_pixels[x + 1] = 0
        last == Min(Len(row_pixels), i + MaxColourRun)
    IN  Least({y \in i..last : at_end(y) \/ y - i >= MaxColourRun}) - i

\* Case 3: the loop for x in i..row_pixels.len(); the value is run_len at its end.
\* In the iteration for x, run_len is x - i before the tests.  The loop ends at the
\* first x that is past the row, is a 0 pixel, finds run_len >= 63 or finds
\* last_colour_len above the threshold; the last two are tested in the order of the
\* compression type, and the second of them takes the threshold off run_len.
LiteralLength(row_pixels, compression_type, i) ==
    LET thr == same_colour_threshold(compression_type)
        at_end(x) == x >= Len(row_pixels) \/ row_pixels[x + 1] = 0
        capped(x) == x - i >= MaxColourRun
        repeated(x) == LastColourLen(row_pixels, i, x) > thr
        last == Min(Len(row_pixels), i + MaxColourRun)
        x == Least({y \in i..last : at_end(y) \/ capped(y) \/ repeated(y)})
    IN  IF at_end(x) THEN x - i
        ELSE IF compression_type = "Normal"
             THEN IF capped(x) THEN x - i ELSE x - i - thr
             ELSE IF repeated(x) THEN x - i - thr ELSE x - i

\* encoded.push(0x80 | run_len as u8)
EmitTransparent(run_len) == <<BitOr(128, AsU8(run_len))>>

\* mutant: the Run is emitted with the transparent-skip flag
EmitRunAsSkip(run_len, current_colour) == <<BitOr(128, AsU8(run_len)), current_colour>>

\* encoded.push(0x40 | run_len as u8); encoded.push(current_colour)
EmitRun(run_len, current_colour) == <<BitOr(64, AsU8(run_len)), current_colour>>

\* encoded.push(run_len as u8); encoded.extend_from_slice(&row_pixels[start..start + run_len])
EmitLiteral(row_pixels, start, run_len) ==
    <<AsU8(run_len)>> \o Slice(row_pixels, start, start + run_len)

RECURSIVE EncodeLoop(_, _, _, _, _)
EncodeLoop(row_pixels, compression_type, i, enc, safety_break) ==
    IF ~(i < Len(row_pixels)) THEN enc
    ELSE IF safety_break + 1 > SafetyBreak THEN enc
    ELSE
      LET current_colour == row_pixels[i + 1]
      IN  IF current_colour = 0
          THEN LET run_len == RunLength(row_pixels, i, 0, MaxTransparentRun)
               IN  EncodeLoop(row_pixels, compression_type, i + run_len,
                              enc \o EmitTransparent(run_len),
                              safety_break + 1)
          ELSE
            LET run_len == RunLength(row_pixels, i, current_colour, MaxColourRun)
            IN  IF run_len > same_colour_threshold(compression_type)
                THEN EncodeLoop(row_pixels, compression_type, i + run_len,
                                enc \o EmitRun(run_len, current_colour),
                                safety_break + 1)
                ELSE
                  LET lit == LiteralLength(row_pixels, compression_type, i)
                  IN  EncodeLoop(row_pixels, compression_type, i + lit,
                                 enc \o EmitLiteral(row_pixels, i, lit),
                                 safety_break + 1)

encode_grp_rle_row(row_pixels, compression_type) ==
    EncodeLoop(row_pixels, compression_type, 0, <<>>, 0)

(***************************************************************************)
(* Inputs of the row tests: every pixel row up to MaxRowLen over three     *)
(* palette indices, and long rows built from segments whose lengths sit    *)
(* around the encoder's caps (63 and 127).                                 *)
(***************************************************************************)
RowPixels == {0, 7, 200}

RECURSIVE SeqsUpTo(_, _)
SeqsUpTo(S, n) ==
    IF n = 0 THEN {<<>>}
    ELSE LET shorter == SeqsUpTo(S, n - 1)
         IN  shorter \cup {Append(s, v) : s \in {t \in shorter : Len(t) = n - 1}, v \in S}

SegKinds == {"zero", "solid", "alternating"}
SegLens == {3, 61, 63, 64, 65, 127, 128}

Segment(kind, n) ==
    [k \in 1..n |->
        CASE kind = "zero"        -> 0
          [] kind = "solid"       -> 7
          [] kind = "alternating" -> IF k % 2 = 1 THEN 200 ELSE 7]

RECURSIVE SegmentRows(_)
SegmentRows(n) ==
    IF n = 0 THEN {<<>>}
    ELSE LET shorter == SegmentRows(n - 1)
         IN  shorter \cup {r \o Segment(k, l) : r \in shorter, k \in SegKinds, l \in SegLens}

TestRows == SeqsUpTo(RowPixels, MaxRowLen) \cup SegmentRows(MaxSegs)

CompressionModes == {"Normal", "Optimised"}

None == [none |-> TRUE]

(***************************************************************************)
(* The row tests (perform_row_tests, prop_encode_decode_roundtrip): encode *)
(* a row with both compression types, then decode both with the row's      *)
(* length as width.                                                        *)
(***************************************************************************)
ReadIdle ==
    /\ rd_type = "Normal"
    /\ rd_frames = None

ExtIdle ==
    /\ ext_width = 0
    /\ ext_offset = None
    /\ ext_stored = None
    /\ ext_back = None

CacheIdle ==
    /\ colour_index_cache = <<>>
    /\ calls = <<>>

TrimIdle ==
    /\ trim_image = None
    /\ trim_result = None

ToolIdle ==
    /\ args = None
    /\ saved = None
    /\ analysis = None

FrameIdle ==
    /\ rle_input = None
    /\ rle_frame = None

LateIdle == ToolIdle /\ FrameIdle

MoreIdle == ReadIdle /\ ExtIdle /\ CacheIdle /\ TrimIdle /\ LateIdle

CodecIdle ==
    /\ row = <<>>
    /\ encoded = None
    /\ decoded = None
    /\ line_data = <<>>
    /\ image_width = 0
    /\ image_height = 0
    /\ dec = None
    /\ img = None

FileIdle ==
    /\ png_files = <<>>
    /\ args_compression = "Normal"
    /\ grp = None
    /\ grp_file = <<>>
    /\ readback = None

InitRle ==
    /\ pc = "row"
    /\ row \in TestRows
    /\ encoded = None
    /\ decoded = None
    /\ line_data = <<>>
    /\ image_width = 0
    /\ image_height = 0
    /\ dec = None
    /\ img = None
    /\ FileIdle
    /\ MoreIdle

EncodeRow ==
    /\ pc = "row"
    /\ encoded' = [m \in CompressionModes |-> encode_grp_rle_row(row, m)]
    /\ pc' = "encoded"
    /\ UNCHANGED <<row, decoded, decVars, fileVars, moreVars>>

DecodeRow ==
    /\ pc = "encoded"
    /\ decoded' = [m \in CompressionModes |-> decode_grp_rle_row(encoded[m], AsU16(Len(row)))]
    /\ pc' = "decoded"
    /\ UNCHANGED <<row, encoded, decVars, fileVars, moreVars>>

NextRle == EncodeRow \/ DecodeRow

SpecRle == InitRle /\ [][NextRle]_vars

(***************************************************************************)
(* The decoder tests (test_decode_*, test_invalid_row_offset): a window of *)
(* arbitrary bytes is decoded as one row of a given width, or read as the  *)
(* data block of a Normal frame of a given width and height.  The bytes    *)
(* are a literal of length 0, literals, a Run, a transparent skip; the     *)
(* small ones also serve as row offsets.                                   *)
(***************************************************************************)
WindowBytes == {0, 1, 2, 3, 66, 129}

InitDecode ==
    /\ pc = "window"
    /\ line_data \in SeqsUpTo(WindowBytes, MaxWindow)
    /\ image_width \in 0..MaxDecodeWidth
    /\ image_height = 0
    /\ dec = None
    /\ img = None
    /\ row = <<>>
    /\ encoded = None
    /\ decoded = None
    /\ FileIdle
    /\ MoreIdle

DecodeWindow ==
    /\ pc = "window"
    /\ dec' = decode_grp_rle_row(line_data, image_width)
    /\ pc' = "row decoded"
    /\ UNCHANGED <<rleVars, line_data, image_width, image_height, img, fileVars, moreVars>>

ReadWindowAsFrame ==
    /\ pc = "window"
    /\ \E height \in 0..MaxDecodeHeight :
          /\ image_height' = height
          /\ img' = read_image_data(line_data, image_width, height, 0)
    /\ pc' = "frame read"
    /\ UNCHANGED <<rleVars, line_data, image_width, dec, fileVars, moreVars>>

NextDecode == DecodeWindow \/ ReadWindowAsFrame

SpecDecode == InitDecode /\ [][NextDecode]_vars

(***************************************************************************)
(* Claims about the RLE row codec, checked under SpecRle.                  *)
(***************************************************************************)

\* C1: RLE row round-trip.  For every pixel row (length 0 included) and both
\* compression types, decoding the encoded row with the row's length as width
\* gives back the row.
C1_RowRoundTrip ==
    pc = "decoded" =>
        \A m \in CompressionModes : decoded[m].line_pixels = row

\* A row with a skip, a same-colour stretch and a literal has been encoded both
\* ways (differently) and decoded back.
C1_Witness ==
    /\ pc = "decoded"
    /\ row = <<0, 7, 7, 7, 200>>
    /\ encoded["Normal"] # encoded["Optimised"]
    /\ decoded["Optimised"].line_pixels = row

\* C7: for every pixel row and both compression types, the consumed-byte count the
\* decoder returns for the encoded row is the length of the encoded row.
C7_ConsumedIsEncodedLength ==
    pc = "decoded" =>
        \A m \in CompressionModes : decoded[m].data_offset = Len(encoded[m])

\* A row longer than both caps, whose encoding has several instructions, was decoded
\* to its last byte.
C7_Witness ==
    /\ pc = "decoded"
    /\ Len(row) > MaxTransparentRun
    /\ Len(encoded["Normal"]) > MaxColourRun
    /\ decoded["Normal"].data_offset = Len(encoded["Normal"])

\* C8: the Optimised encoding of a row is never longer than its Normal encoding.
C8_OptimisedNotLonger ==
    pc \in {"encoded", "decoded"} =>
        Len(encoded["Optimised"]) <= Len(encoded["Normal"])

(***************************************************************************)
(* Claims about the decoder and the frame reader, checked under SpecDecode.*)
(***************************************************************************)
IsRun(control_byte) == BitAnd(control_byte, 128) = 0 /\ BitAnd(control_byte, 64) # 0

\* C9: decoder fallback semantics.  For every byte window and width W the decoder
\* returns exactly W pixels and indexes the window only inside it; every pixel store
\* of a Run or a Literal is at a position below W and takes its value from a byte of
\* the window; a Run control byte at the last position of the window stores no pixel
\* and is the last instruction executed; every pixel that was not stored is 0.
C9_DecoderFallback ==
    pc = "row decoded" =>
        /\ Len(dec.line_pixels) = image_width
        /\ \A o \in dec.reads : 0 <= o /\ o < Len(line_data)
        /\ \A w \in dec.writes :
              /\ 0 <= w[1] /\ w[1] < image_width
              /\ w[2] \in dec.reads
              /\ dec.line_pixels[w[1] + 1] = line_data[w[2] + 1]
        /\ \A c \in dec.ctls :
              (c = Len(line_data) - 1 /\ IsRun(line_data[c + 1])) =>
                  /\ ~\E w \in dec.writes : w[3] = c
                  /\ \A c2 \in dec.ctls : c2 <= c
                  /\ dec.data_offset = Len(line_data)
        /\ \A p \in 0..(image_width - 1) :
              (~\E w \in dec.writes : w[1] = p) => dec.line_pixels[p + 1] = 0

\* A Run asked for more pixels than the width had left, and a later pixel stayed 0.
C9_Witness ==
    /\ pc = "row decoded"
    /\ "run_exceeds_width" \in dec.log
    /\ \E w \in dec.writes : w[1] = image_width - 1

\* C10: soft decode conditions never become errors.  For a Normal frame whose
\* row-offset table fits in the window and whose row offsets all lie inside the
\* window, read_image_data returns Ok whatever the row bytes are.
C10_SoftConditionsNeverFail ==
    (/\ pc = "frame read"
     /\ 2 * image_height <= Len(line_data)
     /\ \A r \in 1..image_height :
           U16FromLe(line_data[2 * r - 1], line_data[2 * r]) < Len(line_data))
    => img.ok


(***************************************************************************)
(* palpng.rs: read_png from the indexed grid onwards.  An input image is   *)
(* [width, height, pixels_2d]: the grid of palette indices that read_png   *)
(* holds after mapping every pixel (palpng.rs 129-141).                    *)
(***************************************************************************)
AllZero(pixels) == \A k \in 1..Len(pixels) : pixels[k] = 0

Column(pixels_2d, x) == [y \in 1..Len(pixels_2d) |-> pixels_2d[y][x + 1]]

RECURSIVE Concat(_)
Concat(rows) ==
    IF rows = <<>> THEN <<>>
    ELSE IF Len(rows) = 1 THEN rows[1]
    ELSE Concat(SubSeq(rows, 1, Len(rows) \div 2))
         \o Concat(SubSeq(rows, Len(rows) \div 2 + 1, Len(rows)))

\* a trim that leaves the transparent columns on the right and rows at the bottom
trim_left_and_top_only(pixels_2d, width, height) ==
    LET rows == Len(pixels_2d)
        trim_top == Least({n \in 0..rows : n = rows \/ ~AllZero(pixels_2d[n + 1])})
        trim_left == Least({n \in 0..width : n = width \/ ~AllZero(Column(pixels_2d, n))})
    IN  [new_width |-> width - trim_left, new_height |-> height - trim_top,
         trim_left |-> trim_left, trim_top |-> trim_top]

trim_away_transparency(pixels_2d, width, height) ==
    LET rows == Len(pixels_2d)
        trim_top == Least({n \in 0..rows : n = rows \/ ~AllZero(pixels_2d[n + 1])})
        trim_bottom == Least({n \in 0..rows : n = rows \/ ~AllZero(pixels_2d[rows - n])})
        trim_left == Least({n \in 0..width : n = width \/ ~AllZero(Column(pixels_2d, n))})
        trim_right ==
            Least({n \in 0..width : n = width \/ ~AllZero(Column(pixels_2d, width - 1 - n))})
        new_width == IF width > trim_left + trim_right
                     THEN width - trim_left - trim_right ELSE 0
        new_height == IF height > trim_top + trim_bottom
                      THEN height - trim_top - trim_bottom ELSE 0
    IN  [new_width |-> new_width, new_height |-> new_height,
         trim_left |-> trim_left, trim_top |-> trim_top]

\* cast::<u8> and cast::<u16>: TryFrom<u32>
FitsU8(value) == value <= 255
FitsU16(value) == value <= 65535

\* The image read_png builds once the trim t is known (palpng.rs 149-162).
TrimmedImage(image, t) ==
    IF ~FitsU8(t.trim_left) THEN Err("InvalidInput", "x_offset out of range")
    ELSE IF ~FitsU8(t.trim_top) THEN Err("InvalidInput", "y_offset out of range")
    ELSE IF ~FitsU16(t.new_width) THEN Err("InvalidInput", "width out of range")
    ELSE IF ~FitsU16(t.new_height) THEN Err("InvalidInput", "height out of range")
    ELSE IF ~FitsU16(image.width) THEN Err("InvalidInput", "original_width out of range")
    ELSE IF ~FitsU16(image.height) THEN Err("InvalidInput", "original_height out of range")
    ELSE Ok([x_offset |-> t.trim_left, y_offset |-> t.trim_top,
             width |-> t.new_width, height |-> t.new_height,
             original_width |-> image.width, original_height |-> image.height,
             image_data |->
                 Concat([y \in 1..t.new_height |->
                            Slice(image.pixels_2d[t.trim_top + y],
                                  t.trim_left, t.trim_left + t.new_width)])])

read_png(image, trim_transparent_pixels) ==
    TrimmedImage(image,
        IF trim_transparent_pixels
        THEN trim_away_transparency(image.pixels_2d, image.width, image.height)
        ELSE [new_width |-> image.width, new_height |-> image.height,
              trim_left |-> 0, trim_top |-> 0])

\* grp.rs reads every PNG as ImageWithMetadata<u8, u16> with trimming on.
png_to_pixels(image) == read_png(image, TRUE)

(***************************************************************************)
(* u32 image_data_offset: bit 31 (EXTENDED_OFFSET_BIT) is kept apart from  *)
(* the low 31 bits, [bit31, low].                                          *)
(***************************************************************************)
EXTENDED_IMAGE_WIDTH == 256
\* EXTENDED_OFFSET_BIT - 1
EXTENDED_OFFSET_MASK == 2147483647

U32(v) == [bit31 |-> FALSE, low |-> v]

\* offset += n as u32
U32Add(offset, n) ==
    LET sum == offset.low + n
    IN  IF sum > EXTENDED_OFFSET_MASK
        THEN [bit31 |-> ~offset.bit31, low |-> sum - EXTENDED_OFFSET_MASK - 1]
        ELSE [bit31 |-> offset.bit31, low |-> sum]

U32ToLe(offset) ==
    <<offset.low % 256, (offset.low \div 256) % 256, (offset.low \div 65536) % 256,
      (offset.low \div 16777216) + (IF offset.bit31 THEN 128 ELSE 0)>>

U32FromLe(b0, b1, b2, b3) ==
    [bit31 |-> b3 >= 128, low |-> b0 + 256 * b1 + 65536 * b2 + 16777216 * (b3 % 128)]

offset_is_extended(offset) == offset.bit31

image_should_be_extended(width) == width >= EXTENDED_IMAGE_WIDTH

\* a decoding adjustment that forgets to clear the highest bit of the offset
decoding_keeping_the_highest_bit(width, image_data_offset) ==
    IF offset_is_extended(image_data_offset)
    THEN <<AsU16(width + EXTENDED_IMAGE_WIDTH), image_data_offset>>
    ELSE <<width, image_data_offset>>

adjust_width_and_offset_if_extended_when_decoding(width, image_data_offset) ==
    IF offset_is_extended(image_data_offset)
    THEN <<AsU16(width + EXTENDED_IMAGE_WIDTH), [image_data_offset EXCEPT !.bit31 = FALSE]>>
    ELSE <<width, image_data_offset>>

adjust_width_and_offset_if_extended_when_encoding(width, offset) ==
    IF image_should_be_extended(width)
    THEN <<width - EXTENDED_IMAGE_WIDTH, [offset EXCEPT !.bit31 = TRUE]>>
    ELSE <<width, offset>>

(***************************************************************************)
(* Frame encoding                                                          *)
(***************************************************************************)
RECURSIVE Sum(_)
Sum(numbers) ==
    IF numbers = <<>> THEN 0
    ELSE IF Len(numbers) = 1 THEN numbers[1]
    ELSE Sum(SubSeq(numbers, 1, Len(numbers) \div 2))
         + Sum(SubSeq(numbers, Len(numbers) \div 2 + 1, Len(numbers)))

SumLen(rows) == Sum([r \in 1..Len(rows) |-> Len(rows[r])])

grp_frame_len(frame) ==
    Len(frame.image_data.row_offsets) * 2 + SumLen(frame.image_data.raw_row_data)

find_longest_overlap(row1, row2) ==
    LET max_overlap == Min(Len(row1), Len(row2))
        overlaps == {overlap_len \in 1..max_overlap :
                        Slice(row1, Len(row1) - overlap_len, Len(row1))
                            = Slice(row2, 0, overlap_len)}
    IN  IF overlaps = {} THEN 0
        ELSE CHOOSE o \in overlaps : \A other \in overlaps : other <= o

\* The ImageData encode_grp_rle_data builds from the encoded rows: each row's
\* offset is rle_data.len() as u16 + (height * 2) before the row is appended,
\* less the overlap with the previous row.
RleImageData(height, pixels, compression_type, raw_row_data) ==
    LET row_start_offset(r) ==
            AsU16(AsU16(SumLen(SubSeq(raw_row_data, 1, r - 1))) + AsU16(height * 2))
        offset_overlap(r) ==
            IF r > 1 /\ compression_type = "Optimised"
            THEN AsU16(find_longest_overlap(raw_row_data[r - 1], raw_row_data[r]))
            ELSE 0
    IN  [row_offsets |-> [r \in 1..height |->
                             AsU16(row_start_offset(r) - offset_overlap(r) + 65536)],
         raw_row_data |-> raw_row_data,
         converted_pixels |-> pixels,
         grp_type |-> "Normal"]

encode_grp_rle_data(width, height, pixels, compression_type) ==
    RleImageData(height, pixels, compression_type,
        [r \in 1..height |->
            encode_grp_rle_row(Slice(pixels, (r - 1) * width, (r - 1) * width + width),
                               compression_type)])

read_uncompressed_pixels(width, height, pixels) ==
    [r \in 1..height |-> Slice(pixels, (r - 1) * width, (r - 1) * width + width)]

encode_uncompressed_grp(width, height, pixels, extended_width) ==
    [row_offsets |-> <<>>,
     raw_row_data |-> read_uncompressed_pixels(width, height, pixels),
     converted_pixels |-> pixels,
     grp_type |-> IF extended_width THEN "UncompressedExtended" ELSE "Uncompressed"]

png_to_grpframe(image, image_data_offset, compression) ==
    IF compression \in {"Normal", "Optimised"}
    THEN IF image.width > 255
         THEN Err("InvalidInput", "Width is above limit of 255")
         ELSE Ok([x_offset |-> image.x_offset, y_offset |-> image.y_offset,
                  width |-> AsU8(image.width), height |-> AsU8(image.height),
                  image_data_offset |-> image_data_offset,
                  image_data |-> encode_grp_rle_data(image.width, image.height,
                                                     image.image_data, compression)])
    ELSE LET extended_width == image_should_be_extended(image.width)
             wo == adjust_width_and_offset_if_extended_when_encoding(image.width,
                                                                     image_data_offset)
         IN  Ok([x_offset |-> image.x_offset, y_offset |-> image.y_offset,
                 width |-> IF extended_width THEN AsU8(wo[1]) ELSE AsU8(image.width),
                 height |-> AsU8(image.height),
                 image_data_offset |-> IF extended_width THEN wo[2] ELSE image_data_offset,
                 image_data |-> encode_uncompressed_grp(image.width, image.height,
                                                        image.image_data, extended_width)])

(***************************************************************************)
(* files_to_grp, create_grp_header, write_grp_file                         *)
(***************************************************************************)
get_header_size(war1_style) == IF war1_style THEN 4 ELSE 6

\* DefaultHasher is taken to be collision-free: the key is what is hashed.
make_frame_reuse_key(compression_type, image) ==
    IF compression_type \in {"Normal", "Optimised"}
    THEN <<image.image_data>>
    ELSE <<image.image_data, image.x_offset, image.y_offset, image.width, image.height>>

\* The loop of files_to_grp over the files left; st holds its locals grp_frames,
\* seen_frames (a set of <<key, index>> pairs, one per key), image_data_offset,
\* max_width and max_height.
RECURSIVE FilesToGrpLoop(_, _, _)

\* A frame whose key has been seen reuses the frame at existing_index.
ReuseFrame(st, image, existing_index) ==
    [st EXCEPT !.grp_frames =
        Append(@, [x_offset |-> image.x_offset, y_offset |-> image.y_offset,
                   width |-> st.grp_frames[existing_index + 1].width,
                   height |-> st.grp_frames[existing_index + 1].height,
                   image_data_offset |->
                       st.grp_frames[existing_index + 1].image_data_offset,
                   image_data |-> st.grp_frames[existing_index + 1].image_data])]

\* A frame with a new key: made is the result of png_to_grpframe.
NewFrame(files, compression_type, st, image, reuse_key, made) ==
    IF ~made.ok THEN made
    ELSE IF offset_is_extended(U32Add(st.image_data_offset, grp_frame_len(made)))
    THEN Err("InvalidInput", "The image data offset is already too big to add more GRPs!")
    ELSE IF \/ /\ compression_type = "War1"
               /\ made.width + made.x_offset > 255
            \/ made.height + made.y_offset > 255
    THEN Err("InvalidInput", "width added to x-offset or height added to y-offset too big")
    ELSE FilesToGrpLoop(Tail(files), compression_type,
             [grp_frames |-> Append(st.grp_frames, [f \in DOMAIN made \ {"ok"} |-> made[f]]),
              seen_frames |-> st.seen_frames \cup {<<reuse_key, Len(st.grp_frames)>>},
              image_data_offset |-> U32Add(st.image_data_offset, grp_frame_len(made)),
              max_width |-> Max(st.max_width, image.original_width),
              max_height |-> Max(st.max_height, image.original_height)])

\* One iteration: image is the result of png_to_pixels.
FilesToGrpStep(files, compression_type, st, image) ==
    IF ~image.ok THEN image
    ELSE IF \E p \in st.seen_frames : p[1] = make_frame_reuse_key(compression_type, image)
    THEN FilesToGrpLoop(Tail(files), compression_type,
             ReuseFrame(st, image,
                 (CHOOSE p \in st.seen_frames :
                     p[1] = make_frame_reuse_key(compression_type, image))[2]))
    ELSE NewFrame(files, compression_type, st, image,
                  make_frame_reuse_key(compression_type, image),
                  png_to_grpframe(image, st.image_data_offset, compression_type))

FilesToGrpLoop(files, compression_type, st) ==
    IF files = <<>>
    THEN Ok([grp_frames |-> st.grp_frames, max_width |-> st.max_width,
             max_height |-> st.max_height])
    ELSE FilesToGrpStep(files, compression_type, st, png_to_pixels(Head(files)))

files_to_grp(files, compression_type) ==
    FilesToGrpLoop(files, compression_type,
        [grp_frames |-> <<>>, seen_frames |-> {},
         image_data_offset |->
             U32(get_header_size(compression_type = "War1") + Len(files) * 8),
         max_width |-> 0, max_height |-> 0])

create_grp_header(frames, max_width, max_height) ==
    [frame_count |-> AsU16(Len(frames)), max_width |-> max_width, max_height |-> max_height]

WriteHeader(header, compression_type) ==
    U16ToLe(header.frame_count)
    \o (IF compression_type = "War1"
        THEN <<AsU8(header.max_width), AsU8(header.max_height)>>
        ELSE U16ToLe(header.max_width) \o U16ToLe(header.max_height))

WriteFrameHeader(frame) ==
    <<frame.x_offset, frame.y_offset, frame.width, frame.height>>
    \o U32ToLe(frame.image_data_offset)

\* the row offset table, then each row's raw data
WriteImageData(frame) ==
    Concat([r \in 1..Len(frame.image_data.row_offsets) |->
               U16ToLe(frame.image_data.row_offsets[r])])
    \o Concat(frame.image_data.raw_row_data)

\* written_frames.insert(&frame.image_data_offset) is true for the first frame
\* of each offset.
FirstOfOffset(frames, i) ==
    \A j \in 1..(i - 1) : frames[j].image_data_offset # frames[i].image_data_offset

\* mutant: every frame's image data is written
WriteEveryFrame(frames) ==
    Concat([i \in 1..Len(frames) |-> WriteImageData(frames[i])])

WriteDistinctFrames(frames) ==
    Concat([i \in 1..Len(frames) |->
               IF FirstOfOffset(frames, i) THEN WriteImageData(frames[i]) ELSE <<>>])

write_grp_file(header, frames, compression_type) ==
    WriteHeader(header, compression_type)
    \o Concat([i \in 1..Len(frames) |-> WriteFrameHeader(frames[i])])
    \o WriteDistinctFrames(frames)

(***************************************************************************)
(* Reading a GRP file: read_grp_header, detect_uncompressed,               *)
(* read_grp_frames.  The file is its sequence of bytes.                    *)
(***************************************************************************)
\* file.read_exact(&mut [0u8; n]) at position pos succeeds
CanReadExact(file, pos, n) == pos + n <= Len(file)

FrameHeaderAt(file, pos) ==
    [x_offset |-> file[pos + 1], y_offset |-> file[pos + 2],
     width |-> file[pos + 3], height |-> file[pos + 4],
     image_data_offset |-> U32FromLe(file[pos + 5], file[pos + 6], file[pos + 7], file[pos + 8])]

try_reading_frame_headers(file, frame_count, start_pos) ==
    LET file_len == Len(file)
        pos(i) == start_pos + AsU16(i * 8)
        adjusted(i) ==
            LET h == FrameHeaderAt(file, pos(i))
            IN  adjust_width_and_offset_if_extended_when_decoding(h.width, h.image_data_offset)
        problem(i) ==
            IF ~CanReadExact(file, pos(i), 8)
            THEN Err("UnexpectedEof", "failed to fill whole buffer")
            ELSE IF adjusted(i)[1] = 0 \/ FrameHeaderAt(file, pos(i)).height = 0
            THEN Err("Other", "Frame width or height is zero")
            ELSE IF adjusted(i)[2].low > file_len
            THEN Err("Other", "Image data offset is too large")
            ELSE Ok([i |-> i])
        failing == {i \in 0..(frame_count - 1) : ~problem(i).ok}
    IN  IF failing = {} THEN Ok([frame_count |-> frame_count])
        ELSE problem(Least(failing))

determine_grp_style(file, frame_count, war1_max_width, war1_max_height) ==
    IF /\ war1_max_width # 0
       /\ war1_max_height # 0
       /\ try_reading_frame_headers(file, frame_count, get_header_size(TRUE)).ok
    THEN Ok([war1_style |-> TRUE])
    ELSE LET result == try_reading_frame_headers(file, frame_count, get_header_size(FALSE))
         IN  IF ~result.ok THEN result ELSE Ok([war1_style |-> FALSE])

read_grp_header(file) ==
    IF ~CanReadExact(file, 0, 8)
    THEN Err("UnexpectedEof", "failed to fill whole buffer")
    ELSE
    LET frame_count == U16FromLe(file[1], file[2])
        war1_max_width == file[3]
        war1_max_height == file[4]
        max_width == U16FromLe(file[3], file[4])
        max_height == U16FromLe(file[5], file[6])
        style == determine_grp_style(file, frame_count, war1_max_width, war1_max_height)
    IN  IF ~style.ok THEN style
        ELSE Ok([header |-> IF ~style.war1_style
                            THEN [frame_count |-> frame_count, max_width |-> max_width,
                                  max_height |-> max_height]
                            ELSE [frame_count |-> frame_count, max_width |-> war1_max_width,
                                  max_height |-> war1_max_height],
                 war1_style |-> style.war1_style])

detect_uncompressed(file, header, war1_style) ==
    LET file_len == Len(file)
        start == get_header_size(war1_style)
        frames == 0..(header.frame_count - 1)
        adjusted(i) ==
            LET h == FrameHeaderAt(file, start + i * 8)
            IN  adjust_width_and_offset_if_extended_when_decoding(h.width, h.image_data_offset)
        height(i) == FrameHeaderAt(file, start + i * 8).height
        \* seen_offsets.insert(offset) is true for the first frame of each offset
        counted == {i \in frames : \A j \in 0..(i - 1) : adjusted(j)[2] # adjusted(i)[2]}
        total_frame_size ==
            Sum([i \in 1..header.frame_count |->
                    IF (i - 1) \in counted THEN adjusted(i - 1)[1] * height(i - 1) ELSE 0])
        nonzero == {i \in frames : adjusted(i)[2].low # 0}
        first_offset == IF nonzero = {} THEN 0 ELSE adjusted(Least(nonzero))[2].low
    IN  IF \E i \in frames : ~CanReadExact(file, start + i * 8, 8)
        THEN Err("UnexpectedEof", "failed to fill whole buffer")
        ELSE Ok([is_uncompressed |-> first_offset + total_frame_size = file_len])

read_uncompressed_image_data(file, width, height, image_data_offset, grp_type) ==
    IF image_data_offset > Len(file)
    THEN Err("UnexpectedEof", "image_data_offset beyond file length")
    ELSE IF Len(file) - image_data_offset < width * height
    THEN Err("UnexpectedEof", "Wanted to read more bytes than are available in file")
    ELSE LET pixels == Slice(file, image_data_offset, image_data_offset + width * height)
         IN  Ok([row_offsets |-> <<>>,
                 raw_row_data |-> read_uncompressed_pixels(width, height, pixels),
                 converted_pixels |-> pixels,
                 grp_type |-> grp_type])

\* The GrpFrame read_grp_frames pushes for the frame header h, once its image
\* data has been read.
FrameRead(h, image_data) ==
    IF ~image_data.ok THEN image_data
    ELSE Ok([x_offset |-> h.x_offset, y_offset |-> h.y_offset,
             width |-> h.width, height |-> h.height,
             image_data_offset |-> h.image_data_offset,
             image_data |-> [row_offsets |-> image_data.row_offsets,
                             raw_row_data |-> image_data.raw_row_data,
                             converted_pixels |-> image_data.converted_pixels,
                             grp_type |-> image_data.grp_type]])

\* The image data of the frame with header h; wo is the width and the offset
\* adjusted for an extended size.
ReadFrameImageData(file, h, wo, grp_type) ==
    IF grp_type # "Normal"
    THEN read_uncompressed_image_data(file, wo[1], h.height, wo[2].low,
             IF offset_is_extended(h.image_data_offset)
             THEN "UncompressedExtended" ELSE grp_type)
    ELSE IF h.image_data_offset.bit31
    THEN Err("UnexpectedEof", "image_data_offset beyond file length")
    ELSE read_image_data(file, h.width, h.height, h.image_data_offset.low)

\* One frame of read_grp_frames: the frame header at pos and its image data.
ReadGrpFrame(file, pos, grp_type) ==
    IF ~CanReadExact(file, pos, 8)
    THEN Err("UnexpectedEof", "failed to fill whole buffer")
    ELSE FrameRead(FrameHeaderAt(file, pos),
             ReadFrameImageData(file, FrameHeaderAt(file, pos),
                 adjust_width_and_offset_if_extended_when_decoding(
                     FrameHeaderAt(file, pos).width,
                     FrameHeaderAt(file, pos).image_data_offset),
                 grp_type))

\* The result of read_grp_frames from the results of its iterations: the first
\* error, or all the frames.
FramesRead(reads) ==
    IF \E i \in 1..Len(reads) : ~reads[i].ok
    THEN reads[Least({i \in 1..Len(reads) : ~reads[i].ok})]
    ELSE Ok([frames |-> [i \in 1..Len(reads) |->
                            [f \in DOMAIN reads[i] \ {"ok"} |-> reads[i][f]]]])

read_grp_frames(file, frame_count, grp_type) ==
    FramesRead([i \in 1..frame_count |->
                   ReadGrpFrame(file,
                                get_header_size(grp_type = "War1") + AsU16((i - 1) * 8),
                                grp_type)])

GrpTypeDetected(is_uncompressed, war1_style) ==
    IF is_uncompressed /\ war1_style THEN "War1"
    ELSE IF is_uncompressed THEN "Uncompressed"
    ELSE "Normal"

\* grp_to_png once the frames are read: what it hands to the renderer.
GrpRead(head, grp_type, read) ==
    IF ~read.ok THEN read
    ELSE Ok([header |-> head.header, war1_style |-> head.war1_style,
             grp_type |-> grp_type, frames |-> read.frames])

\* grp_to_png after detect_uncompressed
GrpReadAs(file, head, uncompressed) ==
    IF ~uncompressed.ok THEN uncompressed
    ELSE GrpRead(head, GrpTypeDetected(uncompressed.is_uncompressed, head.war1_style),
             read_grp_frames(file, head.header.frame_count,
                 GrpTypeDetected(uncompressed.is_uncompressed, head.war1_style)))

\* grp_to_png after read_grp_header
GrpWithHeader(file, head) ==
    IF ~head.ok THEN head
    ELSE GrpReadAs(file, head, detect_uncompressed(file, head.header, head.war1_style))

\* grp_to_png up to the frames it hands to the renderer
grp_to_png(file) == GrpWithHeader(file, read_grp_header(file))

\* png_to_grp after files_to_grp: the frames, the header and the bytes written
GrpWritten(made, compression_type) ==
    IF ~made.ok THEN made
    ELSE Ok([grp_frames |-> made.grp_frames,
             grp_header |-> create_grp_header(made.grp_frames, made.max_width,
                                              made.max_height),
             bytes |-> write_grp_file(
                          create_grp_header(made.grp_frames, made.max_width,
                                            made.max_height),
                          made.grp_frames, compression_type)])

png_to_grp(files, compression_type) ==
    GrpWritten(files_to_grp(files, compression_type), compression_type)

(***************************************************************************)
(* The conversion: png_to_grp on a list of images, then grp_to_png on the  *)
(* file written.  The images are over a transparent and an opaque index:   *)
(* every grid of one or two pixels, the 2x2 grids whose rows each have an  *)
(* opaque pixel, and one solid row of four pixels.                         *)
(***************************************************************************)
FramePixels == {0, 1}
SmallShapes == {<<1, 1>>, <<2, 1>>, <<1, 2>>}

Image(width, height, pixels_2d) ==
    [width |-> width, height |-> height, pixels_2d |-> pixels_2d]

PixelRows(width) == [1..width -> FramePixels]

Images ==
    UNION {{Image(s[1], s[2], g) : g \in [1..s[2] -> PixelRows(s[1])]} : s \in SmallShapes}
    \cup {Image(2, 2, g) : g \in [1..2 -> {r \in PixelRows(2) : ~AllZero(r)}]}
    \cup {Image(4, 1, <<<<1, 1, 1, 1>>>>)}

CompressionTypes == {"Normal", "Optimised", "Uncompressed", "War1"}

Init ==
    /\ pc = "pngs"
    /\ png_files \in SeqsUpTo(Images, MaxFrames) \ {<<>>}
    /\ args_compression \in CompressionTypes
    /\ grp = None
    /\ grp_file = <<>>
    /\ readback = None
    /\ row = <<>>
    /\ encoded = None
    /\ decoded = None
    /\ line_data = <<>>
    /\ image_width = 0
    /\ image_height = 0
    /\ dec = None
    /\ img = None
    /\ MoreIdle

PngToGrp ==
    /\ pc = "pngs"
    /\ grp' = png_to_grp(png_files, args_compression)
    /\ grp_file' = IF grp'.ok THEN grp'.bytes ELSE <<>>
    /\ pc' = IF grp'.ok THEN "written" ELSE "failed"
    /\ UNCHANGED <<png_files, args_compression, readback, rleVars, decVars, moreVars>>

GrpToPng ==
    /\ pc = "written"
    /\ readback' = grp_to_png(grp_file)
    /\ pc' = "read"
    /\ UNCHANGED <<png_files, args_compression, grp, grp_file, rleVars, decVars, moreVars>>

Next == PngToGrp \/ GrpToPng

Spec == Init /\ [][Next]_vars

(***************************************************************************)
(* Claims about the conversion, checked under Spec.                        *)
(***************************************************************************)
Written == pc \in {"written", "read"}

\* Row r (from 1) of a frame's pixel grid.
GridRow(frame, r) ==
    Slice(frame.image_data.converted_pixels, (r - 1) * frame.width, r * frame.width)

\* Row r of a frame decoded from the frame's image data as write_grp_file lays
\* it out, starting at the row's stored offset.
RowDecodedAtOffset(frame, r) ==
    LET payload == WriteImageData(frame)
    IN  decode_grp_rle_row(Slice(payload, frame.image_data.row_offsets[r], Len(payload)),
                           frame.width).line_pixels

\* C2: for every pixel grid encoded in Optimised mode and laid out as write_grp_file
\* writes it (the row offsets, then every raw row in full), decoding row i with the
\* grid's width from byte row_offsets[i] of that payload yields row i of the grid.
C2_OptimisedFrameRoundTrip ==
    (Written /\ args_compression = "Optimised") =>
        \A i \in 1..Len(grp.grp_frames) :
            \A r \in 1..grp.grp_frames[i].height :
                RowDecodedAtOffset(grp.grp_frames[i], r) = GridRow(grp.grp_frames[i], r)

\* The bytes of the file from a frame's image_data_offset (bit 31 cleared) on are
\* the frame's row offset table followed by its raw rows.
AddressesOwnPayload(frame) ==
    LET payload == WriteImageData(frame)
        start == frame.image_data_offset.low
    IN  /\ start + Len(payload) <= Len(grp_file)
        /\ Slice(grp_file, start, start + Len(payload)) = payload

\* C3: for any sequence of images that files_to_grp encodes and write_grp_file
\* writes, every frame's image_data_offset addresses that frame's own payload.
C3_OffsetsAddressOwnPayload ==
    Written => \A i \in 1..Len(grp.grp_frames) : AddressesOwnPayload(grp.grp_frames[i])

GrpTypeOf(compression_type) ==
    CASE compression_type = "Uncompressed" -> "Uncompressed"
      [] compression_type = "War1" -> "War1"
      [] OTHER -> "Normal"

\* The frame read back has the offsets, effective width, height and pixel grid
\* of the trimmed input image.
SameAsTrimmedInput(frame, image) ==
    LET trimmed == png_to_pixels(image)
        effective ==
            adjust_width_and_offset_if_extended_when_decoding(frame.width,
                                                              frame.image_data_offset)
    IN  /\ frame.x_offset = trimmed.x_offset
        /\ frame.y_offset = trimmed.y_offset
        /\ effective[1] = trimmed.width
        /\ frame.height = trimmed.height
        /\ frame.image_data.converted_pixels = trimmed.image_data

\* C4: for any sequence of images encoded as Normal, Uncompressed or War1 and
\* written, reading the file back succeeds, selects the variant written, and yields
\* for every index the offsets, size and pixels of the trimmed input image.
C4_WholeFileRoundTrip ==
    (pc = "read" /\ args_compression \in {"Normal", "Uncompressed", "War1"}) =>
        /\ readback.ok
        /\ readback.grp_type = GrpTypeOf(args_compression)
        /\ Len(readback.frames) = Len(png_files)
        /\ \A i \in 1..Len(png_files) : SameAsTrimmedInput(readback.frames[i], png_files[i])

DistinctOffsetFrames(frames) == {i \in 1..Len(frames) : FirstOfOffset(frames, i)}

\* C5: files_to_grp emits one frame-table entry per input; in Normal mode two
\* inputs with identical trimmed pixel data get the same image_data_offset; and the
\* file is the header, 8 bytes per frame, and one payload per distinct offset (that
\* of the first frame with the offset).
C5_IdenticalFramesShareOnePayload ==
    Written =>
        /\ Len(grp.grp_frames) = Len(png_files)
        /\ args_compression = "Normal" =>
              \A i, j \in 1..Len(png_files) :
                  png_to_pixels(png_files[i]).image_data = png_to_pixels(png_files[j]).image_data
                      => grp.grp_frames[i].image_data_offset
                            = grp.grp_frames[j].image_data_offset
        /\ Len(grp_file) =
              get_header_size(args_compression = "War1") + 8 * Len(grp.grp_frames)
              + Sum([i \in 1..Len(grp.grp_frames) |->
                        IF i \in DistinctOffsetFrames(grp.grp_frames)
                        THEN grp_frame_len(grp.grp_frames[i]) ELSE 0])

\* Two different input files with the same trimmed pixels were written in Normal
\* mode: two frame-table entries, one offset, one payload in the file.
C5_Witness ==
    /\ pc = "written"
    /\ args_compression = "Normal"
    /\ Len(png_files) = 2
    /\ png_files[1] # png_files[2]
    /\ png_to_pixels(png_files[1]).image_data # <<>>
    /\ grp.grp_frames[1].image_data_offset = grp.grp_frames[2].image_data_offset
    /\ Len(grp_file) = 6 + 16 + grp_frame_len(grp.grp_frames[1])

\* C6: for any input sequence that files_to_grp encodes, two frames whose trimmed
\* pixel data differ never have the same image_data_offset.
C6_DifferentFramesNeverAlias ==
    Written =>
        \A i, j \in 1..Len(png_files) :
            png_to_pixels(png_files[i]).image_data # png_to_pixels(png_files[j]).image_data
                => grp.grp_frames[i].image_data_offset # grp.grp_frames[j].image_data_offset


(***************************************************************************)
(* The reader tests (test_incomplete_frame_header, test_invalid_row_offset,*)
(* test_uncompressed_style_header, test_war1_style_header): a file is      *)
(* assembled from a header in either style, one frame-header entry per     *)
(* frame and a payload of arbitrary bytes, possibly cut in the middle of   *)
(* the last entry; it is read by read_grp_frames with a GrpType given by   *)
(* the caller, or by grp_to_png, which detects the type.                   *)
(***************************************************************************)
MaxReadFrames == 2    \* reader tests: frame-header entries in the file
MaxPayload == 3       \* reader tests: bytes after the frame-header table

PayloadBytes == {0, 1, 2}
HeaderStyles == {"war1", "normal"}
ReaderTypes == {"Normal", "Uncompressed", "War1"}

\* data_at is the place of the image data after the table; -1 is offset 0
FirstEntries ==
    [width : 0..2, height : 1..2, data_at : -1..1, extended : BOOLEAN]
LaterEntries ==
    [width : 1..2, height : {1}, data_at : -1..1, extended : {FALSE}]
EntryLists ==
    {<<e>> : e \in FirstEntries}
    \cup {<<e>> \o l : e \in FirstEntries, l \in SeqsUpTo(LaterEntries, MaxReadFrames - 1) \ {<<>>}}

HeaderBytes(style, frame_count) ==
    IF style = "war1" THEN U16ToLe(frame_count) \o <<2, 2>>
    ELSE U16ToLe(frame_count) \o U16ToLe(2) \o U16ToLe(2)

EntryBytes(e, table_end) ==
    <<0, 0, e.width, e.height>>
    \o U32ToLe([bit31 |-> e.extended,
                low |-> IF e.data_at < 0 THEN 0 ELSE table_end + e.data_at])

TestFile(style, entries, payload) ==
    HeaderBytes(style, Len(entries))
    \o Concat([i \in 1..Len(entries) |->
                  EntryBytes(entries[i], get_header_size(style = "war1") + 8 * Len(entries))])
    \o payload

\* the files with at most max_payload bytes after the table
TestFiles(max_payload) ==
    {TestFile(style, entries, payload) :
        style \in HeaderStyles, entries \in EntryLists,
        payload \in SeqsUpTo(PayloadBytes, max_payload)}
    \cup {Slice(TestFile(style, entries, <<>>), 0, Len(TestFile(style, entries, <<>>)) - 4) :
             style \in HeaderStyles, entries \in EntryLists}

InitRead ==
    /\ pc = "written"
    /\ grp_file \in TestFiles(MaxPayload)
    /\ png_files = <<>>
    /\ args_compression = "Normal"
    /\ grp = None
    /\ readback = None
    /\ MoreIdle
    /\ CodecIdle

\* read_grp_frames called as the tests call it: the frame count of the
\* header, and a GrpType of the caller's choice
ReadGrpFrames ==
    /\ pc = "written"
    /\ \E grp_type \in ReaderTypes :
          /\ rd_type' = grp_type
          /\ rd_frames' = read_grp_frames(grp_file, U16FromLe(grp_file[1], grp_file[2]),
                                          grp_type)
    /\ pc' = "frames read"
    /\ UNCHANGED <<rleVars, decVars, fileVars, extVars, cacheVars, trimVars, toolVars, frameVars>>

NextRead == ReadGrpFrames \/ GrpToPng

SpecRead == InitRead /\ [][NextRead]_vars

(***************************************************************************)
(* Claims about the reader, checked under SpecRead.                        *)
(***************************************************************************)
FramesRequested == U16FromLe(grp_file[1], grp_file[2])
EntryPos(i, grp_type) == get_header_size(grp_type = "War1") + 8 * i

\* the bytes from the offset to the end of the file
WindowFrom(offset) ==
    IF offset.bit31 \/ offset.low >= Len(grp_file) THEN <<>>
    ELSE SubSeq(grp_file, offset.low + 1, Len(grp_file))

\* their number, negative when the offset is beyond the end of the file
WindowLen(offset) ==
    IF offset.bit31 THEN -1 ELSE Len(grp_file) - offset.low

TableOffset(window, r) == U16FromLe(window[2 * r - 1], window[2 * r])

HardErrorOfNormal(h) ==
    \/ 2 * h.height > WindowLen(h.image_data_offset)
    \/ \E r \in 1..h.height :
          TableOffset(WindowFrom(h.image_data_offset), r) >= Len(WindowFrom(h.image_data_offset))

HardErrorOfUncompressed(h) ==
    WindowLen([h.image_data_offset EXCEPT !.bit31 = FALSE])
        < (h.width + (IF h.image_data_offset.bit31 THEN 256 ELSE 0)) * h.height

HardError(i, grp_type) ==
    IF EntryPos(i, grp_type) + 8 > Len(grp_file) THEN TRUE
    ELSE IF grp_type = "Normal"
    THEN HardErrorOfNormal(FrameHeaderAt(grp_file, EntryPos(i, grp_type)))
    ELSE HardErrorOfUncompressed(FrameHeaderAt(grp_file, EntryPos(i, grp_type)))

\* row r of a Normal frame is the bytes the decoder consumed from its offset
RawRowIsConsumed(frame, window, r) ==
    frame.image_data.raw_row_data[r] =
        SubSeq(window, TableOffset(window, r) + 1,
               TableOffset(window, r)
               + decode_grp_rle_row(SubSeq(window, TableOffset(window, r) + 1, Len(window)),
                                    frame.width).data_offset)

RawRowsAreConsumed(frame) ==
    frame.image_data.grp_type = "Normal" =>
        \A r \in 1..frame.height :
            RawRowIsConsumed(frame, WindowFrom(frame.image_data_offset), r)

\* C11: read_grp_frames fails when an entry is truncated, when a Normal
\* frame's row-offset table does not fit in the bytes from its offset to the
\* end of the file, when a row offset is at or beyond the end of those bytes,
\* or when an Uncompressed/War1 frame has fewer than effective_width*height
\* bytes; in every other case it returns the frames, and each raw row of a
\* Normal frame is the bytes the decoder consumed for it.
C11_HardErrorsElseRowsConsumed ==
    pc = "frames read" =>
        IF \E i \in 0..(FramesRequested - 1) : HardError(i, rd_type)
        THEN ~rd_frames.ok
        ELSE /\ rd_frames.ok
             /\ \A i \in 1..FramesRequested : RawRowsAreConsumed(rd_frames.frames[i])

\* the part of C11 that holds: the four conditions are errors, and the rows
\* of the frames that are returned are the bytes consumed
C11_ListedErrorsAreErrors ==
    pc = "frames read" =>
        /\ (\E i \in 0..(FramesRequested - 1) : HardError(i, rd_type)) => ~rd_frames.ok
        /\ rd_frames.ok =>
              \A i \in 1..FramesRequested : RawRowsAreConsumed(rd_frames.frames[i])


\* the frame-header entry i of the table that starts at start_pos is complete,
\* with a non-zero adjusted width, a non-zero height and an offset inside the file
EntryAccepted(i, start_pos) ==
    /\ start_pos + 8 * i + 8 <= Len(grp_file)
    /\ LET h == FrameHeaderAt(grp_file, start_pos + 8 * i)
       IN  /\ h.width + (IF h.image_data_offset.bit31 THEN 256 ELSE 0) # 0
           /\ h.height # 0
           /\ h.image_data_offset.low <= Len(grp_file)

War1Rule ==
    /\ grp_file[3] # 0
    /\ grp_file[4] # 0
    /\ \A i \in 0..(FramesRequested - 1) : EntryAccepted(i, 4)

\* what grp_to_png gives when the file is handled as War1: the 4-byte header
\* and the frames read_grp_frames reads from the table at offset 4
HandledAsWar1(result, frames_at_4) ==
    IF ~frames_at_4.ok THEN ~result.ok
    ELSE /\ result.ok
         /\ result.war1_style
         /\ result.grp_type = "War1"
         /\ result.header = [frame_count |-> FramesRequested,
                             max_width |-> grp_file[3], max_height |-> grp_file[4]]
         /\ result.frames = frames_at_4.frames

\* C12: whenever header bytes 2 and 3 are both non-zero and every frame-header
\* entry parsed from offset 4 has a non-zero adjusted width, a non-zero height
\* and an offset not beyond the file length, the file is handled as War1: a
\* 4-byte header, and the frame-header table read from offset 4.
C12_War1RuleMeansWar1 ==
    (pc = "read" /\ War1Rule) =>
        HandledAsWar1(readback, read_grp_frames(grp_file, FramesRequested, "War1"))

\* the part of C12 that holds: read_grp_header reports the War1 style
C12_War1RuleMeansWar1Style ==
    (pc = "read" /\ War1Rule) =>
        /\ read_grp_header(grp_file).ok
        /\ read_grp_header(grp_file).war1_style


AcceptedAsNonWar1(file) ==
    /\ read_grp_header(file).ok
    /\ ~read_grp_header(file).war1_style

\* frame i of the table at offset 6: its offset with bit 31 cleared, and its
\* effective width times its height
ClearedOffset(file, i) == FrameHeaderAt(file, 6 + 8 * i).image_data_offset.low
EffectiveSize(file, i) ==
    LET h == FrameHeaderAt(file, 6 + 8 * i)
    IN  (h.width + (IF h.image_data_offset.bit31 THEN 256 ELSE 0)) * h.height

\* the sum over the distinct offsets, each taken at its first frame
DistinctPayload(file) ==
    Sum([k \in 1..U16FromLe(file[1], file[2]) |->
            IF \A j \in 0..(k - 2) : ClearedOffset(file, j) # ClearedOffset(file, k - 1)
            THEN EffectiveSize(file, k - 1) ELSE 0])

IsUncompressed(file) ==
    detect_uncompressed(file, read_grp_header(file).header, FALSE).is_uncompressed

\* C13: for a file accepted in non-War1 style, detect_uncompressed is true
\* exactly when the first frame's offset (bit 31 cleared) plus the sum of
\* effective_width*height over the distinct offsets equals the file length;
\* the same file with a trailing byte added is not detected as uncompressed.
C13_UncompressedRule ==
    (pc = "read" /\ AcceptedAsNonWar1(grp_file)) =>
        /\ IsUncompressed(grp_file)
              <=> (ClearedOffset(grp_file, 0) + DistinctPayload(grp_file) = Len(grp_file))
        /\ IsUncompressed(grp_file) =>
              \A b \in PayloadBytes :
                  AcceptedAsNonWar1(grp_file \o <<b>>) /\ ~IsUncompressed(grp_file \o <<b>>)

\* the part of C13 that holds: the rule, for the files whose first frame has a
\* non-zero offset
C13_RuleWhenFirstOffsetNonZero ==
    (pc = "read" /\ AcceptedAsNonWar1(grp_file) /\ ClearedOffset(grp_file, 0) # 0) =>
        /\ IsUncompressed(grp_file)
              <=> (ClearedOffset(grp_file, 0) + DistinctPayload(grp_file) = Len(grp_file))
        /\ IsUncompressed(grp_file) =>
              \A b \in PayloadBytes :
                  AcceptedAsNonWar1(grp_file \o <<b>>) /\ ~IsUncompressed(grp_file \o <<b>>)


(***************************************************************************)
(* The extended-width sentinel: a width and an offset are adjusted for     *)
(* writing as png_to_grpframe does (the width is stored in 8 bits), then   *)
(* adjusted back as the readers do.                                        *)
(***************************************************************************)
MaxExtWidth == 511    \* extended width: widths given to the encoding adjustment

ExtOffsets ==
    {U32(0), U32(12), U32(65536), U32(EXTENDED_OFFSET_MASK), [bit31 |-> TRUE, low |-> 12]}

InitExt ==
    /\ pc = "width"
    /\ ext_width \in 0..MaxExtWidth
    /\ ext_offset \in ExtOffsets
    /\ ext_stored = None
    /\ ext_back = None
    /\ ReadIdle
    /\ CacheIdle
    /\ TrimIdle
    /\ FileIdle
    /\ LateIdle
    /\ CodecIdle

\* png_to_grpframe lines 767-774: width = w as u8, offset = o
AdjustWhenEncoding ==
    /\ pc = "width"
    /\ ext_stored' =
          <<AsU8(adjust_width_and_offset_if_extended_when_encoding(ext_width, ext_offset)[1]),
            adjust_width_and_offset_if_extended_when_encoding(ext_width, ext_offset)[2]>>
    /\ pc' = "stored"
    /\ UNCHANGED <<ext_width, ext_offset, ext_back, rleVars, decVars, fileVars, readVars, cacheVars, trimVars, toolVars, frameVars>>

AdjustWhenDecoding ==
    /\ pc = "stored"
    /\ ext_back' =
          adjust_width_and_offset_if_extended_when_decoding(ext_stored[1], ext_stored[2])
    /\ pc' = "adjusted back"
    /\ UNCHANGED <<ext_width, ext_offset, ext_stored, rleVars, decVars, fileVars, readVars, cacheVars, trimVars, toolVars, frameVars>>

NextExt == AdjustWhenEncoding \/ AdjustWhenDecoding

SpecExt == InitExt /\ [][NextExt]_vars

\* C14: for a width in 256..511 and an offset below 0x80000000 the stored
\* width is width - 256, it fits in 8 bits, and the decoding adjustment of
\* the stored pair gives the width and the offset back; for a width up to 255
\* both adjustments leave the pair unchanged; stored width 0 with offset
\* 0x8000000C decodes to width 256 and offset 0x0000000C.
C14_ExtendedWidthRoundTrip ==
    (pc = "adjusted back" /\ ~ext_offset.bit31) =>
        /\ ext_width \in 256..511 =>
              /\ adjust_width_and_offset_if_extended_when_encoding(ext_width, ext_offset)[1]
                     = ext_width - 256
              /\ ext_width - 256 \in 0..255
              /\ ext_stored[1] = ext_width - 256
              /\ ext_back = <<ext_width, ext_offset>>
        /\ ext_width <= 255 =>
              /\ ext_stored = <<ext_width, ext_offset>>
              /\ ext_back = <<ext_width, ext_offset>>
        /\ ext_stored = <<0, [bit31 |-> TRUE, low |-> 12]>> => ext_back = <<256, U32(12)>>

C14_Witness ==
    /\ pc = "adjusted back"
    /\ ext_width = 256
    /\ ext_offset = U32(12)
    /\ ext_stored = <<0, [bit31 |-> TRUE, low |-> 12]>>
    /\ ext_back = <<256, U32(12)>>


(***************************************************************************)
(* The conversion of one large image: a grid of the given width and height *)
(* whose opaque pixels are the ones right of the left margin and below the *)
(* top margin.  The widths and heights lie around the limits of the frame  *)
(* header fields (255) and of the extended width (511).                    *)
(***************************************************************************)
WideWidths == {255, 256, 300, 511, 512, 600}
TallHeights == {255, 256, 300}
Margins == {0, 100}

MarginImage(width, height, left, top) ==
    Image(width, height,
          [y \in 1..height |-> [x \in 1..width |-> IF x > left /\ y > top THEN 1 ELSE 0]])

LargeImages ==
    {MarginImage(w, 1, left, 0) : w \in WideWidths, left \in Margins}
    \cup {MarginImage(1, h, 0, top) : h \in TallHeights, top \in Margins}

InitLarge ==
    /\ pc = "pngs"
    /\ png_files \in {<<image>> : image \in LargeImages}
    /\ args_compression \in CompressionTypes
    /\ grp = None
    /\ grp_file = <<>>
    /\ readback = None
    /\ MoreIdle
    /\ CodecIdle

SpecLarge == InitLarge /\ [][Next]_vars

(***************************************************************************)
(* Claims about the encoder limits, checked under SpecLarge.               *)
(***************************************************************************)
Converted == pc \in {"written", "failed", "read"}

\* stored width, plus 256 when bit 31 of the offset is set
EffectiveWidth(frame) ==
    frame.width + (IF frame.image_data_offset.bit31 THEN EXTENDED_IMAGE_WIDTH ELSE 0)

InputRangeError(result) == ~result.ok /\ result.kind = "InvalidInput"

WidthLimit(compression_type) ==
    IF compression_type \in {"Normal", "Optimised"} THEN 255 ELSE 511

\* C15: an image whose trimmed width exceeds 255 (Normal, Optimised) or 511
\* (Uncompressed, War1) gives an input-range error, and no frame is returned
\* whose effective width differs from the trimmed width of its image.
C15_WidthLimitsEnforced ==
    Converted =>
        \A i \in 1..Len(png_files) :
            png_to_pixels(png_files[i]).ok =>
                /\ png_to_pixels(png_files[i]).width > WidthLimit(args_compression)
                      => InputRangeError(grp)
                /\ grp.ok =>
                      EffectiveWidth(grp.grp_frames[i]) = png_to_pixels(png_files[i]).width

\* the part of C15 that holds: the limit of Normal and Optimised
C15_NormalWidthLimitEnforced ==
    (Converted /\ args_compression \in {"Normal", "Optimised"}) =>
        \A i \in 1..Len(png_files) :
            png_to_pixels(png_files[i]).ok =>
                /\ png_to_pixels(png_files[i]).width > 255 => InputRangeError(grp)
                /\ grp.ok =>
                      EffectiveWidth(grp.grp_frames[i]) = png_to_pixels(png_files[i]).width


BoundsError(result) ==
    /\ ~result.ok
    /\ result.err = "width added to x-offset or height added to y-offset too big"

\* the frame built from the image reaches beyond 255 in x or in y
ExceedsBounds(frame) ==
    /\ frame.ok
    /\ \/ frame.x_offset + frame.width > 255
       \/ frame.y_offset + frame.height > 255

FrameBuilt(i) == png_to_grpframe(png_to_pixels(png_files[i]), U32(0), args_compression)

\* C16: files_to_grp rejects a newly built frame with the bounds error exactly
\* when the compression type is War1 and x_offset + stored width > 255 or
\* y_offset + height > 255; with Normal, Optimised or Uncompressed no frame is
\* rejected by this check.
C16_BoundsCheckIsWar1Only ==
    Converted =>
        /\ BoundsError(grp) =>
              /\ args_compression = "War1"
              /\ \E i \in 1..Len(png_files) :
                    png_to_pixels(png_files[i]).ok /\ ExceedsBounds(FrameBuilt(i))
        /\ (/\ args_compression = "War1"
            /\ png_to_pixels(png_files[1]).ok
            /\ ExceedsBounds(FrameBuilt(1))) => BoundsError(grp)

\* the part of C16 that holds: War1 frames are rejected exactly when they
\* exceed the bounds, and the width never rejects a frame of another type
C16_War1BoundsChecked ==
    Converted =>
        /\ (args_compression = "War1" /\ png_to_pixels(png_files[1]).ok) =>
              (BoundsError(grp) <=> ExceedsBounds(FrameBuilt(1)))
        /\ (/\ args_compression # "War1"
            /\ png_to_pixels(png_files[1]).ok
            /\ FrameBuilt(1).ok
            /\ FrameBuilt(1).y_offset + FrameBuilt(1).height <= 255) => ~BoundsError(grp)


(***************************************************************************)
(* Claims about the header and the frames of the conversion.               *)
(***************************************************************************)
Greatest(S) == CHOOSE x \in S : \A y \in S : y <= x

\* frame i reuses the image data of an earlier input
Deduplicated(i) ==
    \E j \in 1..(i - 1) :
        make_frame_reuse_key(args_compression, png_to_pixels(png_files[j]))
            = make_frame_reuse_key(args_compression, png_to_pixels(png_files[i]))

\* C17: the max_width and max_height of the GRP header are the maximum
\* untrimmed width and the maximum untrimmed height over all input images,
\* the deduplicated ones included.
C17_HeaderMaxOverAllInputs ==
    (pc \in {"written", "read"} /\ grp.ok) =>
        /\ grp.grp_header.max_width
              = Greatest({png_files[i].width : i \in 1..Len(png_files)})
        /\ grp.grp_header.max_height
              = Greatest({png_files[i].height : i \in 1..Len(png_files)})

\* the part of C17 that holds: the maximum over the inputs that are not
\* deduplicated
C17_HeaderMaxOverNewFrames ==
    (pc \in {"written", "read"} /\ grp.ok) =>
        /\ grp.grp_header.max_width
              = Greatest({png_files[i].width :
                             i \in {k \in 1..Len(png_files) : ~Deduplicated(k)}})
        /\ grp.grp_header.max_height
              = Greatest({png_files[i].height :
                             i \in {k \in 1..Len(png_files) : ~Deduplicated(k)}})


RowTableMatchesHeader(frame) ==
    IF frame.image_data.grp_type = "Normal"
    THEN /\ Len(frame.image_data.row_offsets) = frame.height
         /\ Len(frame.image_data.raw_row_data) = frame.height
    ELSE /\ frame.image_data.row_offsets = <<>>
         /\ \A r \in 1..Len(frame.image_data.raw_row_data) :
               Len(frame.image_data.raw_row_data[r]) = EffectiveWidth(frame)

FramesMatchHeader(frames) == \A i \in 1..Len(frames) : RowTableMatchesHeader(frames[i])

\* C18: every Normal frame produced by read_grp_frames or by png_to_grpframe,
\* for any image height, has as many row offsets and as many raw rows as the
\* 8-bit height of its frame header; every Uncompressed/War1 frame has no row
\* offsets and raw rows of the effective width.
C18_RowTableLength ==
    /\ (Converted /\ grp.ok) => FramesMatchHeader(grp.grp_frames)
    /\ (pc = "read" /\ readback.ok) => FramesMatchHeader(readback.frames)
    /\ (pc = "frames read" /\ rd_frames.ok) => FramesMatchHeader(rd_frames.frames)

\* the part of C18 that holds: the frames of the reader
C18_RowTableLengthWhenRead ==
    /\ (pc = "read" /\ readback.ok) => FramesMatchHeader(readback.frames)
    /\ (pc = "frames read" /\ rd_frames.ok) => FramesMatchHeader(rd_frames.frames)


(***************************************************************************)
(* palpng.rs: the colour cache.  COLOUR_INDEX_CACHE is a map behind a      *)
(* Mutex; a call of cached_map_colour_to_palette_index locks it to look    *)
(* the key up, computes the index without the lock when the key is absent, *)
(* and locks it again to insert.  Each lock is held for one step.  The     *)
(* threads call the function again and again with keys of their choice.    *)
(***************************************************************************)
MaxThreads == 2       \* colour cache: concurrent callers

Some(v) == <<v>>
NoAlpha == <<>>

Palette == <<<<0, 0, 0>>, <<100, 100, 100>>, <<100, 100, 102>>, <<200, 0, 0>>>>
CacheColours == {<<100, 100, 101>>, <<200, 0, 0>>}
CacheAlphas == {NoAlpha, Some(0)}
CacheKeys == CacheColours \X CacheAlphas

Distance(colour, pal_colour) ==
    (colour[1] - pal_colour[1]) * (colour[1] - pal_colour[1])
    + (colour[2] - pal_colour[2]) * (colour[2] - pal_colour[2])
    + (colour[3] - pal_colour[3]) * (colour[3] - pal_colour[3])

\* the first index of the smallest distance: best_index is replaced only by a
\* strictly smaller distance
map_colour_to_palette_index(colour, alpha, palette) ==
    IF alpha = Some(0) THEN 0
    ELSE IF palette = <<>> THEN 0
    ELSE AsU8(Least({i \in 1..Len(palette) :
                        \A j \in 1..Len(palette) :
                            Distance(colour, palette[i]) <= Distance(colour, palette[j])}) - 1)

\* an insert that drops the other entries of the map
CacheReplacedBy(cache, key, result) == [k \in {key} |-> result]

\* HashMap::insert
CacheInserted(cache, key, result) ==
    [k \in DOMAIN cache \cup {key} |-> IF k = key THEN result ELSE cache[k]]

Threads == 1..MaxThreads
IdleCall == [pc |-> "idle", key |-> <<>>, result |-> 0]

InitCache ==
    /\ pc = "threads"
    /\ colour_index_cache = <<>>
    /\ calls = [t \in Threads |-> IdleCall]
    /\ ReadIdle
    /\ ExtIdle
    /\ TrimIdle
    /\ FileIdle
    /\ LateIdle
    /\ CodecIdle

CacheOnly == UNCHANGED <<pc, rleVars, decVars, fileVars, readVars, extVars, trimVars, toolVars, frameVars>>

Call(t) ==
    /\ calls[t].pc = "idle"
    /\ \E key \in CacheKeys :
          calls' = [calls EXCEPT ![t] = [pc |-> "lookup", key |-> key, result |-> 0]]
    /\ UNCHANGED colour_index_cache
    /\ CacheOnly

\* COLOUR_INDEX_CACHE.lock().unwrap().get(&key)
Lookup(t) ==
    /\ calls[t].pc = "lookup"
    /\ calls' = [calls EXCEPT ![t] =
                    IF calls[t].key \in DOMAIN colour_index_cache
                    THEN [@ EXCEPT !.pc = "returned",
                                   !.result = colour_index_cache[calls[t].key]]
                    ELSE [@ EXCEPT !.pc = "compute"]]
    /\ UNCHANGED colour_index_cache
    /\ CacheOnly

Compute(t) ==
    /\ calls[t].pc = "compute"
    /\ calls' = [calls EXCEPT ![t] =
                    [@ EXCEPT !.pc = "insert",
                              !.result = map_colour_to_palette_index(calls[t].key[1],
                                                                     calls[t].key[2], Palette)]]
    /\ UNCHANGED colour_index_cache
    /\ CacheOnly

\* COLOUR_INDEX_CACHE.lock().unwrap().insert(key, result)
Insert(t) ==
    /\ calls[t].pc = "insert"
    /\ colour_index_cache' = CacheInserted(colour_index_cache, calls[t].key, calls[t].result)
    /\ calls' = [calls EXCEPT ![t] = [@ EXCEPT !.pc = "returned"]]
    /\ CacheOnly

\* the caller goes on to its next pixel
Return(t) ==
    /\ calls[t].pc = "returned"
    /\ calls' = [calls EXCEPT ![t] = IdleCall]
    /\ UNCHANGED colour_index_cache
    /\ CacheOnly

NextCache == \E t \in Threads : Call(t) \/ Lookup(t) \/ Compute(t) \/ Insert(t) \/ Return(t)

SpecCache == InitCache /\ [][NextCache]_vars

ReturnsAreMapped ==
    \A t \in DOMAIN calls :
        calls[t].pc = "returned" =>
            calls[t].result
                = map_colour_to_palette_index(calls[t].key[1], calls[t].key[2], Palette)

EntriesKept ==
    \A key \in DOMAIN colour_index_cache :
        /\ key \in DOMAIN colour_index_cache'
        /\ colour_index_cache'[key] = colour_index_cache[key]

\* C19: with a fixed palette, in every interleaving of the calls every call
\* returns map_colour_to_palette_index of its colour and alpha, and an entry
\* of the cache is never removed nor replaced by a different value.
C19_CacheTransparent == []ReturnsAreMapped /\ [][EntriesKept]_vars

\* two calls missed the same key: one has inserted and returned, the other
\* is about to insert the entry again
C19_Witness ==
    \E t1, t2 \in DOMAIN calls :
        /\ t1 # t2
        /\ calls[t1].pc = "returned"
        /\ calls[t2].pc = "insert"
        /\ calls[t1].key = calls[t2].key
        /\ calls[t1].key \in DOMAIN colour_index_cache
        /\ calls[t1].result = 1


(***************************************************************************)
(* palpng.rs: trimming (trims_transparent_rows_and_columns,                *)
(* whole_image_is_transparent_and_trimmed_away).  read_png is given every  *)
(* grid of up to MaxTrimSide columns and rows over a transparent and an    *)
(* opaque index.                                                           *)
(***************************************************************************)
MaxTrimSide == 3      \* trimming: columns and rows of the grid

\* the grids of w columns and h rows
TrimGrids(w, h) == {Image(w, h, g) : g \in [1..h -> PixelRows(w)]}

InitTrim ==
    /\ pc = "grid"
    /\ \E w \in 1..MaxTrimSide, h \in 1..MaxTrimSide : trim_image \in TrimGrids(w, h)
    /\ trim_result = None
    /\ ReadIdle
    /\ ExtIdle
    /\ CacheIdle
    /\ FileIdle
    /\ LateIdle
    /\ CodecIdle

\* read_png with trim_transparent_pixels: the box of trim_away_transparency
\* and the image built from it
TrimAway ==
    /\ pc = "grid"
    /\ trim_result' =
          [box |-> trim_away_transparency(trim_image.pixels_2d, trim_image.width,
                                          trim_image.height),
           image |-> read_png(trim_image, TRUE)]
    /\ pc' = "trimmed"
    /\ UNCHANGED <<trim_image, rleVars, decVars, fileVars, readVars, extVars, cacheVars, toolVars, frameVars>>

NextTrim == TrimAway

SpecTrim == InitTrim /\ [][NextTrim]_vars

\* the columns and the rows (from 0) that hold a non-zero pixel
OpaqueColumns(image) ==
    {x \in 0..(image.width - 1) : \E y \in 1..image.height : image.pixels_2d[y][x + 1] # 0}
OpaqueRows(image) ==
    {y \in 0..(image.height - 1) : \E x \in 1..image.width : image.pixels_2d[y + 1][x] # 0}

\* C20: for a grid with a non-zero pixel, trim_away_transparency returns the
\* minimal bounding box of the non-zero pixels (trim_left and trim_top count
\* the leading all-zero columns and rows, new_width and new_height are the
\* size of the box) and the trimmed pixels are new_width*new_height entries,
\* the pixels of the box; for a grid with no non-zero pixel the width and the
\* height are 0.
C20_TrimIsBoundingBox ==
    pc = "trimmed" =>
        IF OpaqueColumns(trim_image) # {}
        THEN /\ trim_result.box.trim_left = Least(OpaqueColumns(trim_image))
             /\ trim_result.box.trim_top = Least(OpaqueRows(trim_image))
             /\ trim_result.box.new_width
                   = Greatest(OpaqueColumns(trim_image)) - Least(OpaqueColumns(trim_image)) + 1
             /\ trim_result.box.new_height
                   = Greatest(OpaqueRows(trim_image)) - Least(OpaqueRows(trim_image)) + 1
             /\ trim_result.image.ok
             /\ Len(trim_result.image.image_data)
                   = trim_result.box.new_width * trim_result.box.new_height
             /\ \A k \in 1..Len(trim_result.image.image_data) :
                   trim_result.image.image_data[k]
                       = trim_image.pixels_2d
                             [trim_result.box.trim_top + ((k - 1) \div trim_result.box.new_width) + 1]
                             [trim_result.box.trim_left + ((k - 1) % trim_result.box.new_width) + 1]
        ELSE /\ trim_result.box.new_width = 0
             /\ trim_result.box.new_height = 0
             /\ trim_result.image.image_data = <<>>

\* the grid of trims_transparent_rows_and_columns: only the centre is opaque
C20_Witness ==
    /\ pc = "trimmed"
    /\ trim_image = Image(3, 3, <<<<0, 0, 0>>, <<0, 1, 0>>, <<0, 0, 0>>>>)
    /\ trim_result.box = [new_width |-> 1, new_height |-> 1, trim_left |-> 1, trim_top |-> 1]
    /\ trim_result.image.image_data = <<1>>

(***************************************************************************)
(* Rendering: grp_to_png with its call of render_and_save_frames_to_png    *)
(* (src/src/png.rs).  A buffer is the Vec<u8> of the source, 3 or 4 bytes  *)
(* per pixel; an Option is <<>> when unset and <<v>> when set.  A panic of *)
(* the renderer (an index or a slice out of range) ends the run: what was  *)
(* saved before it stays saved.                                            *)
(***************************************************************************)
MaxTiles == 5

\* the 256 entries read_rgb_palette returns, entry i at position i + 1
RgbPalette == [i \in 1..256 |-> <<i - 1, 256 - i, 7>>]

\* the bytes draw_frame_to_raw_buffer stores for one pixel
PixelBytes(colour, palette_index, use_transparency) ==
    IF use_transparency
    THEN IF palette_index = 0 THEN <<0, 0, 0, 0>> ELSE colour \o <<255>>
    ELSE colour

BytesPerPixel(use_transparency) == IF use_transparency THEN 4 ELSE 3

\* The loops store pixel (x, y) of the frame, read at y * frame.width + x, at
\* pixel_index = (y + y_offset) * max_width + (x + x_offset).  A pixel of the
\* buffer holds the last store made to it; the run panics when a store or a
\* read is out of range, which the last pixel of the frame decides.
draw_frame_to_raw_buffer(frame, palette, max_width, max_height, use_transparency) ==
    LET bpp == BytesPerPixel(use_transparency)
        size == max_width * max_height * bpp
        pixels == frame.image_data.converted_pixels
        pixel_index(x, y) == (y + frame.y_offset) * max_width + (x + frame.x_offset)
        stores(p) ==
            {y * frame.width + (p - pixel_index(0, y)) :
                y \in {v \in 0..(frame.height - 1) :
                          /\ p - pixel_index(0, v) >= 0
                          /\ p - pixel_index(0, v) < frame.width}}
        stored(idx) == PixelBytes(palette[pixels[idx + 1] + 1], pixels[idx + 1],
                                  use_transparency)
        byte(p, c) == IF stores(p) = {} THEN 0 ELSE stored(Greatest(stores(p)))[c + 1]
        panicked ==
            /\ frame.width > 0
            /\ frame.height > 0
            /\ \/ frame.width * frame.height > Len(pixels)
               \/ (pixel_index(frame.width - 1, frame.height - 1) + 1) * bpp > size
    IN  [panicked |-> panicked,
         width |-> max_width,
         height |-> max_height,
         buffer |-> IF panicked THEN <<>>
                    ELSE [b \in 1..size |-> byte((b - 1) \div bpp, (b - 1) % bpp)]]

IsSome(option) == option # <<>>

\* (n as f64).sqrt().floor() as u32
FloorSqrt(n) == Greatest({c \in 0..n : c * c <= n})

\* (a as f64 / b as f64).ceil() as u32, for b > 0
CeilDiv(a, b) == (a + b - 1) \div b

\* the number of columns of the tiled image
TiledColumns(frame_count, max_frame_width, max_width) ==
    IF IsSome(max_width) /\ max_width[1] > max_frame_width
                         /\ FloorSqrt(frame_count) * max_frame_width > max_width[1]
    THEN max_width[1] \div max_frame_width
    ELSE IF IsSome(max_width) /\ max_width[1] < max_frame_width
    THEN 1
    ELSE FloorSqrt(frame_count)

\* The canvas after the loop over the frames: every cell that has a frame holds
\* that frame's own buffer, the rest is what the first draw left there.
TiledCanvas(first, tiles, cols, max_frame_width, max_frame_height, bpp) ==
    LET canvas_width == first.width
        cell(p) == ((p \div canvas_width) \div max_frame_height) * cols
                   + ((p % canvas_width) \div max_frame_width)
        src_index(p) == ((p \div canvas_width) % max_frame_height) * max_frame_width
                        + ((p % canvas_width) % max_frame_width)
        byte(p, c) == IF cell(p) < Len(tiles)
                      THEN tiles[cell(p) + 1].buffer[src_index(p) * bpp + c + 1]
                      ELSE first.buffer[p * bpp + c + 1]
    IN  [width |-> first.width, height |-> first.height,
         buffer |-> [b \in 1..Len(first.buffer) |-> byte((b - 1) \div bpp, (b - 1) % bpp)]]

\* the tiled branch, from the first draw onto the canvas and the frames' own buffers
SaveTiled(first, tiles, cols, max_frame_width, max_frame_height, bpp) ==
    IF first.panicked \/ \E i \in 1..Len(tiles) : tiles[i].panicked
    THEN [panicked |-> TRUE, frames |-> <<>>, all_frames |-> <<>>]
    ELSE [panicked |-> FALSE, frames |-> <<>>,
          all_frames |-> Some(TiledCanvas(first, tiles, cols, max_frame_width,
                                          max_frame_height, bpp))]

\* the non-tiled branch, from the buffers of the frames: frame i - 1 of the
\* source is left out when it is args.frame_number, and nothing is saved from
\* the first panic on
SaveEach(drawn, frame_number) ==
    LET wanted == {i \in 1..Len(drawn) : frame_number # Some(i - 1)}
        failed == {i \in wanted : drawn[i].panicked}
        written == {i \in wanted : \A j \in failed : i < j}
    IN  [panicked |-> failed # {},
         frames |-> [i \in written |-> [width |-> drawn[i].width,
                                        height |-> drawn[i].height,
                                        buffer |-> drawn[i].buffer]],
         all_frames |-> <<>>]

render_and_save_frames_to_png(frames, palette, max_frame_width, max_frame_height, a) ==
    IF a.tiled /\ ~IsSome(a.frame_number)
    THEN IF frames = <<>>
         THEN [panicked |-> TRUE, frames |-> <<>>, all_frames |-> <<>>]
         ELSE SaveTiled(
                 draw_frame_to_raw_buffer(frames[1], palette,
                     TiledColumns(Len(frames), max_frame_width, a.max_width)
                         * max_frame_width,
                     CeilDiv(Len(frames),
                             TiledColumns(Len(frames), max_frame_width, a.max_width))
                         * max_frame_height,
                     a.use_transparency),
                 [i \in 1..Len(frames) |->
                     draw_frame_to_raw_buffer(frames[i], palette, max_frame_width,
                                              max_frame_height, a.use_transparency)],
                 TiledColumns(Len(frames), max_frame_width, a.max_width),
                 max_frame_width, max_frame_height, BytesPerPixel(a.use_transparency))
    ELSE SaveEach([i \in 1..Len(frames) |->
                      draw_frame_to_raw_buffer(frames[i], palette, max_frame_width,
                                               max_frame_height, a.use_transparency)],
                  a.frame_number)

\* grp_to_png after read_grp_frames
GrpRendered(read, a) ==
    IF ~read.ok THEN read
    ELSE render_and_save_frames_to_png(read.frames, RgbPalette, read.header.max_width,
                                       read.header.max_height, a)

(***************************************************************************)
(* The conversion with rendering: png_to_grp on a list of images, then the *)
(* whole of grp_to_png on the file written.  The images are small ones     *)
(* with and without transparent margins, one of the extended width, and    *)
(* lists of up to MaxTiles equal images for the tiled layout.              *)
(***************************************************************************)
RenderImages ==
    {Image(1, 1, <<<<1>>>>), Image(2, 1, <<<<0, 1>>>>), Image(1, 2, <<<<0>>, <<1>>>>),
     Image(2, 2, <<<<1, 0>>, <<0, 1>>>>), MarginImage(256, 1, 0, 0)}

RenderInputs(max_tiles) ==
    (SeqsUpTo(RenderImages, MaxFrames) \ {<<>>})
    \cup {Repeat(Image(1, 1, <<<<1>>>>), n) : n \in 1..max_tiles}

RenderArgs ==
    [tiled : BOOLEAN, frame_number : {<<>>, Some(0), Some(1)},
     max_width : {<<>>, Some(1), Some(2), Some(3)}, use_transparency : BOOLEAN,
     analyse_row_number : {<<>>}]

InitRender ==
    /\ pc = "pngs"
    /\ png_files \in RenderInputs(MaxTiles)
    /\ args_compression \in CompressionTypes
    /\ args \in RenderArgs
    /\ grp = None
    /\ grp_file = <<>>
    /\ readback = None
    /\ saved = None
    /\ analysis = None
    /\ FrameIdle
    /\ ReadIdle
    /\ ExtIdle
    /\ CacheIdle
    /\ TrimIdle
    /\ CodecIdle

GrpToPngSaved ==
    /\ pc = "written"
    /\ readback' = grp_to_png(grp_file)
    /\ saved' = GrpRendered(readback', args)
    /\ pc' = "saved"
    /\ UNCHANGED <<png_files, args_compression, grp, grp_file, args, analysis>>
    /\ UNCHANGED <<rleVars, decVars, readVars, extVars, cacheVars, trimVars, frameVars>>

NextRender == PngToGrp \/ GrpToPngSaved

SpecRender == InitRender /\ [][NextRender]_vars

(***************************************************************************)
(* Claims about rendering, checked under SpecRender.                       *)
(***************************************************************************)
Rendered == pc = "saved" /\ readback.ok

FrameWidth(frame) ==
    frame.width + (IF frame.image_data.grp_type = "UncompressedExtended"
                   THEN EXTENDED_IMAGE_WIDTH ELSE 0)

\* The buffer the frame should give: its pixels, from a grid of stride
\* FrameWidth, at (x_offset + x, y_offset + y), zeros everywhere else.
BlitOf(frame, max_width, max_height, use_transparency) ==
    LET bpp == BytesPerPixel(use_transparency)
        px(b) == ((b - 1) \div bpp) % max_width
        py(b) == ((b - 1) \div bpp) \div max_width
        inside(b) == /\ px(b) >= frame.x_offset
                     /\ px(b) < frame.x_offset + FrameWidth(frame)
                     /\ py(b) >= frame.y_offset
                     /\ py(b) < frame.y_offset + frame.height
        pixel(b) == frame.image_data.converted_pixels[
                        (py(b) - frame.y_offset) * FrameWidth(frame)
                        + (px(b) - frame.x_offset) + 1]
    IN  [b \in 1..(max_width * max_height * bpp) |->
            IF inside(b)
            THEN PixelBytes(RgbPalette[pixel(b) + 1], pixel(b),
                            use_transparency)[((b - 1) % bpp) + 1]
            ELSE 0]

FitsHeader(frame, header) ==
    /\ frame.x_offset + FrameWidth(frame) <= header.max_width
    /\ frame.y_offset + frame.height <= header.max_height

NonTiled == ~(args.tiled /\ ~IsSome(args.frame_number))

\* C21: in non-tiled egress no store of the renderer falls outside the
\* max_width x max_height buffer, and the buffer saved for a frame holds the
\* frame's pixels, taken from a grid of stride effective_width, at
\* (x_offset + x, y_offset + y) and the background value everywhere else.
C21_FrameBlit ==
    (Rendered /\ NonTiled) =>
        /\ ~saved.panicked
        /\ \A i \in DOMAIN saved.frames :
              saved.frames[i].buffer =
                  BlitOf(readback.frames[i], readback.header.max_width,
                         readback.header.max_height, args.use_transparency)

\* The part of C21 that holds: a frame that is not of the extended width and
\* lies within the header's max_width x max_height is drawn as C21 says.
C21_FrameBlitWithinHeader ==
    (Rendered /\ NonTiled) =>
        \A i \in 1..Len(readback.frames) :
            (/\ args.frame_number # Some(i - 1)
             /\ \A j \in 1..i :
                   /\ FitsHeader(readback.frames[j], readback.header)
                   /\ readback.frames[j].image_data.grp_type # "UncompressedExtended")
            => /\ i \in DOMAIN saved.frames
               /\ saved.frames[i].buffer =
                      BlitOf(readback.frames[i], readback.header.max_width,
                             readback.header.max_height, args.use_transparency)

C21_Witness ==
    /\ Rendered
    /\ NonTiled
    /\ ~saved.panicked
    /\ \E i \in DOMAIN saved.frames :
          /\ readback.frames[i].x_offset = 1
          /\ readback.header.max_width = 2
          /\ saved.frames[i].buffer = <<0, 0, 0, 1, 254, 7>>

\* the frames, numbered from 0 as the output files are, that were saved
SavedFrames == {i - 1 : i \in DOMAIN saved.frames}

\* C22: in non-tiled egress with frame_number = k the file of frame k is
\* written and no other; with frame_number unset one file is written per
\* frame, numbered by the frame's index.
C22_FrameSelection ==
    (Rendered /\ NonTiled /\ ~saved.panicked) =>
        SavedFrames = IF IsSome(args.frame_number)
                      THEN {args.frame_number[1]}
                      ELSE 0..(Len(readback.frames) - 1)

\* The part of C22 that holds: with frame_number unset every frame has its
\* file; with frame_number = k every frame but k has one.
C22_AllButTheNumberedFrame ==
    (Rendered /\ NonTiled /\ ~saved.panicked) =>
        SavedFrames = IF IsSome(args.frame_number)
                      THEN (0..(Len(readback.frames) - 1)) \ {args.frame_number[1]}
                      ELSE 0..(Len(readback.frames) - 1)

C22_Witness ==
    /\ Rendered
    /\ ~saved.panicked
    /\ args.frame_number = Some(1)
    /\ Len(readback.frames) = 2
    /\ SavedFrames = {0}

TiledRendered ==
    /\ Rendered
    /\ args.tiled
    /\ ~IsSome(args.frame_number)
    /\ ~saved.panicked
    /\ Len(readback.frames) >= 1

\* the number of columns of the canvas that was saved
CanvasColumns == saved.all_frames[1].width \div readback.header.max_width

CanvasRows == saved.all_frames[1].height \div readback.header.max_height

\* the columns as C23 states them
ColumnsStated(frame_count, max_frame_width, max_width) ==
    IF IsSome(max_width) /\ FloorSqrt(frame_count) * max_frame_width > max_width[1]
    THEN Max(max_width[1] \div max_frame_width, 1)
    ELSE FloorSqrt(frame_count)

\* the cell of frame i (from 0) on the canvas equals the frame's own blit
CellHoldsFrame(i, cols, use_transparency) ==
    LET mw == readback.header.max_width
        mh == readback.header.max_height
        bpp == BytesPerPixel(use_transparency)
        canvas == saved.all_frames[1]
        at(x, y, c) ==
            canvas.buffer[(((i \div cols) * mh + y) * canvas.width
                           + (i % cols) * mw + x) * bpp + c + 1]
        blit == BlitOf(readback.frames[i + 1], mw, mh, use_transparency)
    IN  \A x \in 0..(mw - 1), y \in 0..(mh - 1), c \in 0..(bpp - 1) :
            at(x, y, c) = blit[(y * mw + x) * bpp + c + 1]

FramesInsideCanvas ==
    \A i \in 0..(Len(readback.frames) - 1) :
        /\ i % CanvasColumns < CanvasColumns
        /\ i \div CanvasColumns < CanvasRows
        /\ (FitsHeader(readback.frames[i + 1], readback.header)
            /\ readback.frames[i + 1].image_data.grp_type # "UncompressedExtended")
           => CellHoldsFrame(i, CanvasColumns, args.use_transparency)

\* C23: the tiled canvas has floor(sqrt(n)) columns unless a max-width
\* request is set and that many columns exceed it, and then floor(request /
\* max_frame_width) columns, or 1 when not even one frame fits; so there is at
\* least one column, the canvas is no wider than a request that is at least
\* max_frame_width, and frame i lies at column i mod cols, row i div cols
\* inside the canvas of ceil(n / cols) rows.
C23_TiledLayout ==
    TiledRendered =>
        /\ CanvasColumns = ColumnsStated(Len(readback.frames), readback.header.max_width,
                                         args.max_width)
        /\ CanvasColumns >= 1
        /\ (IsSome(args.max_width) /\ args.max_width[1] >= readback.header.max_width)
              => saved.all_frames[1].width <= args.max_width[1]
        /\ CanvasRows = CeilDiv(Len(readback.frames), CanvasColumns)
        /\ FramesInsideCanvas

\* The part of C23 that holds: the columns are reduced only by a request
\* that is greater than max_frame_width, so the canvas is no wider than a
\* request that is greater than max_frame_width; the rest is as stated.
C23_TiledLayoutOfLargerRequest ==
    TiledRendered =>
        /\ (~IsSome(args.max_width) \/ args.max_width[1] # readback.header.max_width)
              => CanvasColumns = ColumnsStated(Len(readback.frames),
                                               readback.header.max_width, args.max_width)
        /\ CanvasColumns >= 1
        /\ (IsSome(args.max_width) /\ args.max_width[1] > readback.header.max_width)
              => saved.all_frames[1].width <= args.max_width[1]
        /\ CanvasRows = CeilDiv(Len(readback.frames), CanvasColumns)
        /\ FramesInsideCanvas

C23_Witness ==
    /\ TiledRendered
    /\ Len(readback.frames) = 5
    /\ args.max_width = Some(3)
    /\ CanvasColumns = 2
    /\ CanvasRows = 3

(***************************************************************************)
(* The analyser: analyse_grp (src/src/analyse.rs).  A byte position is a   *)
(* u64 of the source made from a u32: the pair <<bit 31, the low 31        *)
(* bits>>, ordered as the numbers are.  The build decides what an          *)
(* overflowing subtraction or addition does: a debug build panics, a       *)
(* release build wraps.                                                    *)
(***************************************************************************)
Builds == {"debug", "release"}

Pos(offset) == <<IF offset.bit31 THEN 1 ELSE 0, offset.low>>
PosAt(n) == <<0, n>>
PosAdd(p, n) == <<p[1], p[2] + n>>
PosLess(p, q) == p[1] < q[1] \/ (p[1] = q[1] /\ p[2] < q[2])

Panic(msg) == [ok |-> FALSE, kind |-> "panic", msg |-> msg]

Range(start, end, what, frame_index, i) ==
    [start |-> start, end |-> end, what |-> what, frame |-> frame_index, row |-> i]

\* the ranges pushed for one frame: its row offset table, then its rows
FrameRanges(frame, frame_index) ==
    LET data_offset == Pos(frame.image_data_offset)
        row_offset(i) ==
            IF frame.image_data.grp_type = "Normal"
            THEN frame.image_data.row_offsets[i + 1]
            ELSE IF frame.image_data.grp_type = "UncompressedExtended"
            THEN (frame.width + 256) * i
            ELSE frame.width * i
    IN  <<Range(data_offset,
                PosAdd(data_offset, Len(frame.image_data.row_offsets) * 2),
                "row offset table", frame_index, 0)>>
        \o [r \in 1..Len(frame.image_data.raw_row_data) |->
               Range(PosAdd(data_offset, row_offset(r - 1)),
                     PosAdd(data_offset,
                            row_offset(r - 1) + Len(frame.image_data.raw_row_data[r])),
                     "row", frame_index, r - 1)]

\* used_ranges before it is sorted
UsedRanges(frames) ==
    <<Range(PosAt(0), PosAt(6), "GRP Header", 0, 0),
      Range(PosAt(6), PosAt(6 + Len(frames) * 8), "Frame headers", 0, 0)>>
    \o Concat([f \in 1..Len(frames) |-> FrameRanges(frames[f], f - 1)])

\* used_ranges.sort_by_key(|r| r.0): a stable sort by the start
SortedByStart(ranges) ==
    LET before(j, i) == \/ PosLess(ranges[j].start, ranges[i].start)
                        \/ (ranges[j].start = ranges[i].start /\ j < i)
        rank(i) == Cardinality({j \in 1..Len(ranges) : before(j, i)}) + 1
    IN  [k \in 1..Len(ranges) |->
            ranges[CHOOSE i \in 1..Len(ranges) : rank(i) = k]]

\* the pairs (previous, current) reported as overlapping
OverlapsOf(used_ranges) ==
    {<<used_ranges[i - 1], used_ranges[i]>> :
        i \in {k \in 2..Len(used_ranges) :
                  PosLess(used_ranges[k].start, used_ranges[k - 1].end)}}

\* The gap pass reads the bytes of every gap: read_exact fails for a gap that
\* ends beyond the file.
GapReadFails(used_ranges, file_len) ==
    \E i \in 1..Len(used_ranges) :
        LET pos == IF i = 1 THEN PosAt(0) ELSE used_ranges[i - 1].end
        IN  /\ PosLess(pos, used_ranges[i].start)
            /\ PosLess(PosAt(file_len), used_ranges[i].start)

\* analyse_grp from line 105 on, from the sorted ranges
LayoutReport(frames, grp_type, used_ranges, file_len) ==
    IF GapReadFails(used_ranges, file_len)
    THEN Err("UnexpectedEof", "failed to fill whole buffer")
         @@ [used_ranges |-> used_ranges, overlaps |-> OverlapsOf(used_ranges)]
    ELSE Ok([report |-> "layout", frames |-> frames, grp_type |-> grp_type,
             used_ranges |-> used_ranges, overlaps |-> OverlapsOf(used_ranges)])

\* analyse_grp, lines 31 to 104: the report on one frame
FrameReport(frames, grp_type, frame_number, row_number, build) ==
    IF frame_number > Len(frames)
    THEN IF Len(frames) = 0 /\ build = "debug"
         THEN Panic("attempt to subtract with overflow")
         ELSE Err("InvalidInput", "Invalid arguments")
    ELSE IF frame_number >= Len(frames)
    THEN Panic("index out of bounds")
    ELSE LET frame == frames[frame_number + 1]
             uncompressed == grp_type # "Normal"
         IN  IF (~IsSome(row_number) \/ uncompressed) /\ frame.height = 255 /\ build = "debug"
             THEN Panic("attempt to add with overflow")
             ELSE IF /\ IsSome(row_number)
                     /\ (IF uncompressed THEN AsU8(frame.height + 1) ELSE row_number[1])
                            > frame.height
             THEN Err("InvalidInput", "Invalid arguments")
             ELSE IF /\ frame.image_data.grp_type = "Normal"
                     /\ build = "debug"
                     /\ \E i \in 1..Len(frame.image_data.raw_row_data) :
                           frame.image_data.row_offsets[i]
                               + AsU16(frame.image_data_offset.low) > 65535
             THEN Panic("attempt to add with overflow")
             ELSE Ok([report |-> "frame", frames |-> frames, grp_type |-> grp_type,
                      frame_number |-> frame_number])

\* analyse_grp after the frames are read
Analysed(file, read, a, build) ==
    IF ~read.ok THEN read
    ELSE IF IsSome(a.frame_number)
    THEN FrameReport(read.frames, read.grp_type, a.frame_number[1],
                     a.analyse_row_number, build)
    ELSE LayoutReport(read.frames, read.grp_type,
                      SortedByStart(UsedRanges(read.frames)), Len(file))

analyse_grp(file, a, build) == Analysed(file, grp_to_png(file), a, build)

(***************************************************************************)
(* The analysis of a file: one that png_to_grp wrote from a list of small  *)
(* images, or a file of no frames.                                         *)
(***************************************************************************)
AnalyseImages ==
    RenderImages \cup {Image(2, 2, <<<<0, 1>>, <<1, 0>>>>), Image(1, 2, <<<<1>>, <<1>>>>)}

EmptyGrpFiles == {<<0, 0, 2, 0, 2, 0, 0, 0>>, <<0, 0, 2, 2, 0, 0, 0, 0>>}

AnalyseArgs ==
    [tiled : {FALSE}, frame_number : {<<>>} \cup {Some(k) : k \in 0..(MaxFrames + 1)},
     max_width : {<<>>}, use_transparency : {FALSE},
     analyse_row_number : {<<>>, Some(0), Some(3)}]

InitAnalyse ==
    /\ \/ /\ pc = "pngs"
          /\ png_files \in SeqsUpTo(AnalyseImages, MaxFrames) \ {<<>>}
          /\ args_compression \in CompressionTypes
          /\ grp_file = <<>>
       \/ /\ pc = "written"
          /\ png_files = <<>>
          /\ args_compression = "Normal"
          /\ grp_file \in EmptyGrpFiles
    /\ args \in AnalyseArgs
    /\ grp = None
    /\ readback = None
    /\ saved = None
    /\ analysis = None
    /\ FrameIdle
    /\ ReadIdle
    /\ ExtIdle
    /\ CacheIdle
    /\ TrimIdle
    /\ CodecIdle

AnalyseGrp ==
    /\ pc = "written"
    /\ \E build \in Builds : analysis' = analyse_grp(grp_file, args, build)
    /\ pc' = "analysed"
    /\ UNCHANGED <<fileVars, args, saved>>
    /\ UNCHANGED <<rleVars, decVars, readVars, extVars, cacheVars, trimVars, frameVars>>

NextAnalyse == PngToGrp \/ AnalyseGrp

SpecAnalyse == InitAnalyse /\ [][NextAnalyse]_vars

(***************************************************************************)
(* Claims about the analyser, checked under SpecAnalyse.                   *)
(***************************************************************************)
LayoutReported == pc = "analysed" /\ analysis.ok /\ analysis.report = "layout"

\* a row of a Normal frame begins inside the row before it
UsesOverlap(frames) ==
    \E f \in 1..Len(frames) :
        /\ frames[f].image_data.grp_type = "Normal"
        /\ \E r \in 2..Len(frames[f].image_data.raw_row_data) :
              frames[f].image_data.row_offsets[r]
                  < frames[f].image_data.row_offsets[r - 1]
                    + Len(frames[f].image_data.raw_row_data[r - 1])

ConsecutiveRows(pair) ==
    /\ pair[1].what = "row"
    /\ pair[2].what = "row"
    /\ pair[1].frame = pair[2].frame
    /\ pair[2].row = pair[1].row + 1

\* C24: for a GRP that decodes and does not use the inter-row overlap, also
\* one in which several frames share an image_data_offset, analyse_grp
\* reports no overlapping ranges; for one that uses the overlap every
\* reported overlap is between two consecutive rows of the same frame.
C24_OverlapReport ==
    LayoutReported =>
        IF UsesOverlap(analysis.frames)
        THEN \A pair \in analysis.overlaps : ConsecutiveRows(pair)
        ELSE analysis.overlaps = {}

SharedOffsets(frames) ==
    \E f \in 1..Len(frames), g \in 1..Len(frames) :
        f # g /\ frames[f].image_data_offset = frames[g].image_data_offset

\* The part of C24 that holds: the same statement for the files not read in
\* the War1 style in which no two frames share an image_data_offset.
C24_OverlapReportOfDistinctOffsets ==
    (LayoutReported /\ analysis.grp_type # "War1"
                    /\ ~SharedOffsets(analysis.frames)) =>
        IF UsesOverlap(analysis.frames)
        THEN \A pair \in analysis.overlaps : ConsecutiveRows(pair)
        ELSE analysis.overlaps = {}

C24_Witness ==
    /\ LayoutReported
    /\ UsesOverlap(analysis.frames)
    /\ analysis.overlaps # {}
    /\ \A pair \in analysis.overlaps : ConsecutiveRows(pair)

\* the frames analyse_grp read from the file, when it read them
FramesAnalysed == grp_to_png(grp_file)

FrameAsked ==
    /\ pc = "analysed"
    /\ IsSome(args.frame_number)
    /\ FramesAnalysed.ok

InvalidInputError(result) == ~result.ok /\ result.kind = "InvalidInput"

ReportsOnFrame(result, frame_number) ==
    result.ok /\ result.report = "frame" /\ result.frame_number = frame_number

\* C25: for a frame_number greater than or equal to the number of frames of
\* the file, also of a file of no frames, analyse_grp returns an
\* InvalidInput error and does not index the frames with it; for a
\* frame_number below the number of frames (and no row asked for) it reports
\* on that frame.
C25_FrameNumberRange ==
    FrameAsked =>
        IF args.frame_number[1] >= Len(FramesAnalysed.frames)
        THEN InvalidInputError(analysis)
        ELSE ~IsSome(args.analyse_row_number)
                => ReportsOnFrame(analysis, args.frame_number[1])

\* The part of C25 that holds: the error is returned for a frame_number
\* greater than the number of frames of a file that has frames.
C25_FrameNumberAboveCount ==
    FrameAsked =>
        IF args.frame_number[1] >= Len(FramesAnalysed.frames)
        THEN (/\ args.frame_number[1] > Len(FramesAnalysed.frames)
              /\ Len(FramesAnalysed.frames) > 0)
                 => InvalidInputError(analysis)
        ELSE ~IsSome(args.analyse_row_number)
                => ReportsOnFrame(analysis, args.frame_number[1])

C25_Witness ==
    /\ FrameAsked
    /\ Len(FramesAnalysed.frames) = 2
    /\ args.frame_number = Some(3)
    /\ InvalidInputError(analysis)

\* analyse_grp got as far as building and sorting used_ranges
RangesBuilt == pc = "analysed" /\ "used_ranges" \in DOMAIN analysis

War1Header == read_grp_header(grp_file).war1_style

HasRange(used_ranges, what, frame_index, i, start, len) ==
    \E k \in 1..Len(used_ranges) :
        used_ranges[k] = Range(PosAt(start), PosAt(start + len), what, frame_index, i)

\* the place of row i (from 0) of the frame, relative to its image data
RowPlace(frame, i) ==
    IF frame.image_data.grp_type = "Normal"
    THEN frame.image_data.row_offsets[i + 1]
    ELSE FrameWidth(frame) * i

\* used_ranges is sorted by start and is the header range [0, h), the table
\* range [h, h + 8 * frame_count) and, for every frame, the range of its row
\* offset table and of each of its rows at their places in the file
RangeListIs(used_ranges, frames, h) ==
    /\ \A k \in 2..Len(used_ranges) :
          ~PosLess(used_ranges[k].start, used_ranges[k - 1].start)
    /\ HasRange(used_ranges, "GRP Header", 0, 0, 0, h)
    /\ HasRange(used_ranges, "Frame headers", 0, 0, h, 8 * Len(frames))
    /\ \A f \in 1..Len(frames) :
          /\ HasRange(used_ranges, "row offset table", f - 1, 0,
                      frames[f].image_data_offset.low,
                      2 * Len(frames[f].image_data.row_offsets))
          /\ \A r \in 1..Len(frames[f].image_data.raw_row_data) :
                HasRange(used_ranges, "row", f - 1, r - 1,
                         frames[f].image_data_offset.low + RowPlace(frames[f], r - 1),
                         Len(frames[f].image_data.raw_row_data[r]))
    /\ Len(used_ranges) =
          2 + Sum([f \in 1..Len(frames) |->
                      1 + Len(frames[f].image_data.raw_row_data)])

\* C28: the range list analyse_grp builds is sorted by start byte and holds
\* the header range [0, H) and the frame-header table range
\* [H, H + 8 * frame_count), H = 4 for a War1 file and 6 otherwise, and one
\* range per row-offset table and per row payload at its true file position.
C28_RangeList ==
    RangesBuilt =>
        RangeListIs(analysis.used_ranges, FramesAnalysed.frames,
                    IF War1Header THEN 4 ELSE 6)

\* The part of C28 that holds: the list as stated with H = 6, for the files
\* that have no frame of the extended width, whatever their header style.
C28_RangeListWithSixByteHeader ==
    (/\ RangesBuilt
     /\ \A f \in 1..Len(FramesAnalysed.frames) :
           ~FramesAnalysed.frames[f].image_data_offset.bit31) =>
        RangeListIs(analysis.used_ranges, FramesAnalysed.frames, 6)

C28_Witness ==
    /\ RangesBuilt
    /\ ~War1Header
    /\ Len(FramesAnalysed.frames) = 2
    /\ RangeListIs(analysis.used_ranges, FramesAnalysed.frames, 6)
    /\ \E k \in 1..Len(analysis.used_ranges) :
          analysis.used_ranges[k].what = "row" /\ analysis.used_ranges[k].row = 1

(***************************************************************************)
(* The frame encoder: encode_grp_rle_data on a grid of pixels, in Normal   *)
(* or Optimised mode.  The grids are the small ones over a transparent and *)
(* an opaque index, and wide ones of up to 255 rows whose rows do not      *)
(* compress (two alternating indices) or are of one index.  In a debug     *)
(* build an overflowing addition panics; in a release build it wraps.      *)
(***************************************************************************)
MaxFrameSide == 2

SmallFrames(max_side) ==
    UNION {{[width |-> w, height |-> h, pixels |-> p] : p \in [1..(w * h) -> FramePixels]} :
              w \in 1..max_side, h \in 1..max_side}

FrameKinds == {"alternating", "solid"}
FrameHeights == {1, 251, 252, 255}

WideFrame(width, height, kind) ==
    [width |-> width, height |-> height,
     pixels |-> [k \in 1..(width * height) |->
                    IF kind = "solid" THEN 1 ELSE 1 + (((k - 1) % width) % 2)]]

RleModes == {"Normal", "Optimised"}

InitFrame ==
    /\ pc = "pixels"
    /\ \E mode \in RleModes :
          \/ \E f \in SmallFrames(MaxFrameSide) :
                rle_input = [width |-> f.width, height |-> f.height,
                             pixels |-> f.pixels, compression_type |-> mode]
          \/ \E h \in FrameHeights, kind \in FrameKinds :
                rle_input = [width |-> 255, height |-> h,
                             pixels |-> WideFrame(255, h, kind).pixels,
                             compression_type |-> mode]
    /\ rle_frame = None
    /\ ToolIdle
    /\ ReadIdle
    /\ ExtIdle
    /\ CacheIdle
    /\ TrimIdle
    /\ FileIdle
    /\ CodecIdle

\* let row_start_offset = rle_data.len() as u16 + (height * 2) overflows
RowStartOverflows(height, raw_row_data) ==
    \E r \in 1..height :
        AsU16(SumLen(SubSeq(raw_row_data, 1, r - 1))) + AsU16(height * 2) > 65535

\* encode_grp_rle_data as the build runs it
FrameEncodedBy(build, image_data) ==
    IF build = "debug" /\ RowStartOverflows(Len(image_data.raw_row_data),
                                            image_data.raw_row_data)
    THEN Panic("attempt to add with overflow")
    ELSE Ok(image_data)

EncodeFrame ==
    /\ pc = "pixels"
    /\ \E build \in Builds :
          rle_frame' = FrameEncodedBy(build,
                           encode_grp_rle_data(rle_input.width, rle_input.height,
                                               rle_input.pixels,
                                               rle_input.compression_type))
    /\ pc' = "encoded"
    /\ UNCHANGED <<rle_input, toolVars>>
    /\ UNCHANGED <<rleVars, decVars, fileVars, readVars, extVars, cacheVars, trimVars>>

NextFrame == EncodeFrame

SpecFrame == InitFrame /\ [][NextFrame]_vars

(***************************************************************************)
(* Claims about the frame encoder, checked under SpecFrame.                *)
(***************************************************************************)
FrameEncoded == pc = "encoded"

\* 2 * height + the total length of the encoded rows before row r (from 1)
RowStart(r) ==
    2 * rle_input.height + SumLen(SubSeq(rle_frame.raw_row_data, 1, r - 1))

\* the longest k such that the last k bytes of row r - 1 are the first k of row r
LongestOverlap(r) ==
    LET prev == rle_frame.raw_row_data[r - 1]
        curr == rle_frame.raw_row_data[r]
    IN  Greatest({k \in 0..Min(Len(prev), Len(curr)) :
                     SubSeq(prev, Len(prev) - k + 1, Len(prev)) = SubSeq(curr, 1, k)})

\* the bytes of the frame: the row offset table and the encoded rows
FrameByteLength ==
    2 * rle_input.height + SumLen(rle_frame.raw_row_data)

SmallFrame == FrameByteLength < 65536

\* C26: in Optimised mode the stored offset of a row i >= 1 whose longest
\* overlap with the encoded row before it is k is row_start - k when k > 1
\* and row_start when k <= 1; row 0, and every row in Normal mode, has the
\* stored offset row_start.
C26_OverlapOffsetRule ==
    (FrameEncoded /\ rle_frame.ok /\ SmallFrame) =>
        \A r \in 1..rle_input.height :
            rle_frame.row_offsets[r] =
                IF /\ r > 1
                   /\ rle_input.compression_type = "Optimised"
                   /\ LongestOverlap(r) > 1
                THEN RowStart(r) - LongestOverlap(r)
                ELSE RowStart(r)

\* The part of C26 that holds: the stored offset is row_start less the
\* longest overlap, whatever its length.
C26_OffsetLessAnyOverlap ==
    (FrameEncoded /\ rle_frame.ok /\ SmallFrame) =>
        \A r \in 1..rle_input.height :
            rle_frame.row_offsets[r] =
                IF r > 1 /\ rle_input.compression_type = "Optimised"
                THEN RowStart(r) - LongestOverlap(r)
                ELSE RowStart(r)

C26_Witness ==
    /\ FrameEncoded
    /\ rle_frame.ok
    /\ rle_input.compression_type = "Optimised"
    /\ rle_input.height = 2
    /\ LongestOverlap(2) = 2
    /\ rle_frame.row_offsets = <<4, 5>>

\* the overlap encode_grp_rle_data recorded for row r (from 1)
RecordedOverlap(r) ==
    IF r > 1 /\ rle_input.compression_type = "Optimised" THEN LongestOverlap(r) ELSE 0

\* every stored row offset is the row's byte position in the frame less the
\* recorded overlap, and the row ends within the frame
OffsetsAreTrue ==
    \A r \in 1..rle_input.height :
        /\ rle_frame.row_offsets[r] = RowStart(r) - RecordedOverlap(r)
        /\ rle_frame.row_offsets[r] + Len(rle_frame.raw_row_data[r]) <= FrameByteLength

\* C30: for a frame of width <= 255 and height <= 255 every 16-bit stored
\* row offset is the true byte position of the row relative to
\* image_data_offset, less the recorded overlap, without wrapping modulo
\* 2^16, so that row offset + encoded row length never exceeds the frame's
\* byte length.
C30_RowOffsetsDoNotWrap ==
    (/\ FrameEncoded
     /\ rle_frame.ok
     /\ rle_input.width <= 255
     /\ rle_input.height <= 255) => OffsetsAreTrue

\* The part of C30 that holds: the offsets are true in every frame whose
\* bytes number less than 2^16.
C30_RowOffsetsOfSmallFrames ==
    (FrameEncoded /\ rle_frame.ok /\ SmallFrame) => OffsetsAreTrue

C30_Witness ==
    /\ FrameEncoded
    /\ rle_frame.ok
    /\ rle_input.width = 255
    /\ rle_input.height = 251
    /\ FrameByteLength = 2 * 251 + 251 * 260
    /\ OffsetsAreTrue

(***************************************************************************)
(* Claims about the instructions of an encoded row, checked under SpecRle. *)
(***************************************************************************)
\* The instructions of an encoded row from byte at (from 0) on: a control
\* byte with bit 7 is a transparent skip, one with bit 6 a Run with its
\* colour byte, any other a Literal with as many payload bytes as it says.
RECURSIVE Instructions(_, _)
Instructions(enc, at) ==
    IF at >= Len(enc) THEN <<>>
    ELSE LET control_byte == enc[at + 1]
         IN  IF control_byte >= 128
             THEN <<[op |-> "Skip", count |-> control_byte - 128, payload |-> <<>>]>>
                  \o Instructions(enc, at + 1)
             ELSE IF control_byte >= 64
             THEN <<[op |-> "Run", count |-> control_byte - 64,
                     payload |-> Slice(enc, at + 1, Min(at + 2, Len(enc)))]>>
                  \o Instructions(enc, at + 2)
             ELSE <<[op |-> "Literal", count |-> control_byte,
                     payload |-> Slice(enc, at + 1, Min(at + 1 + control_byte, Len(enc)))]>>
                  \o Instructions(enc, at + 1 + control_byte)

\* the pixels hold more than n consecutive identical ones
RepeatsMoreThan(pixels, n) ==
    \E k \in 1..(Len(pixels) - n) : \A j \in 1..n : pixels[k + j] = pixels[k]

WellFormed(instruction, threshold) ==
    CASE instruction.op = "Literal" ->
            /\ instruction.count \in 1..63
            /\ Len(instruction.payload) = instruction.count
            /\ \A k \in 1..Len(instruction.payload) : instruction.payload[k] # 0
            /\ ~RepeatsMoreThan(instruction.payload, threshold)
      [] instruction.op = "Skip" -> instruction.count \in 1..127
      [] instruction.op = "Run" ->
            /\ instruction.count \in (threshold + 1)..63
            /\ Len(instruction.payload) = 1

\* C27: in the output of encode_grp_rle_row, for any row and mode, every
\* Literal has a length byte in 1..63 and a payload without a 0 pixel and
\* with no more than same_colour_threshold consecutive identical pixels (3
\* in Normal, 2 in Optimised), every transparent skip has a count in 1..127
\* and every Run a count in (threshold + 1)..63.
C27_InstructionsWellFormed ==
    pc \in {"encoded", "decoded"} =>
        \A m \in CompressionModes :
            \A k \in 1..Len(Instructions(encoded[m], 0)) :
                WellFormed(Instructions(encoded[m], 0)[k], same_colour_threshold(m))

\* A row of 61 alternating pixels and 65 equal ones was encoded: the Normal
\* encoding has a Literal of 63 pixels that ends in two equal ones, the
\* Optimised one a Literal of 61 and a Run of 63.
C27_Witness ==
    /\ pc = "encoded"
    /\ Len(row) = 126
    /\ Instructions(encoded["Normal"], 0)[1].op = "Literal"
    /\ Instructions(encoded["Normal"], 0)[1].count = 63
    /\ RepeatsMoreThan(Instructions(encoded["Normal"], 0)[1].payload, 1)
    /\ Instructions(encoded["Optimised"], 0)[1].count = 61
    /\ Instructions(encoded["Optimised"], 0)[2] = [op |-> "Run", count |-> 63, payload |-> <<7>>]

(***************************************************************************)
(* Claims about deduplicated frames, checked under Spec.                   *)
(***************************************************************************)
RleWritten == Written /\ args_compression \in {"Normal", "Optimised"}

\* the frame emitted has the width, the height and the pixels of the trimmed image
OwnImage(frame, image) ==
    /\ frame.width = png_to_pixels(image).width
    /\ frame.height = png_to_pixels(image).height
    /\ frame.image_data.converted_pixels = png_to_pixels(image).image_data

\* the first input whose trimmed pixel sequence is that of input i
FirstWithPixelsOf(i) ==
    Least({j \in 1..i : png_to_pixels(png_files[j]).image_data
                           = png_to_pixels(png_files[i]).image_data})

\* C29: for every input image that files_to_grp accepts in Normal or
\* Optimised mode, the emitted frame has the stored width and height of the
\* image's trimmed grid and that grid as its decoded pixels, also when the
\* frame was deduplicated against an earlier frame with the same flat pixel
\* sequence but another width and height.
C29_DedupKeepsOwnImage ==
    RleWritten =>
        \A i \in 1..Len(png_files) : OwnImage(grp.grp_frames[i], png_files[i])

\* The part of C29 that holds: the frame has the image's flat pixel
\* sequence, and the width and height of the first input with that sequence.
C29_DedupKeepsFlatPixels ==
    RleWritten =>
        \A i \in 1..Len(png_files) :
            /\ grp.grp_frames[i].image_data.converted_pixels
                  = png_to_pixels(png_files[i]).image_data
            /\ grp.grp_frames[i].width
                  = png_to_pixels(png_files[FirstWithPixelsOf(i)]).width
            /\ grp.grp_frames[i].height
                  = png_to_pixels(png_files[FirstWithPixelsOf(i)]).height

C29_Witness ==
    /\ RleWritten
    /\ Len(png_files) = 2
    /\ png_files[1] # png_files[2]
    /\ grp.grp_frames[1].image_data_offset = grp.grp_frames[2].image_data_offset
    /\ OwnImage(grp.grp_frames[2], png_files[2])

=============================================================================
